---- MODULE Spec2Model ----
(***************************************************************************)
(* Reading Session Engine of the EPUB reader view (EpubReaderView) and the *)
(* plugin's location store (ReaderPlugin).                                 *)
(*                                                                         *)
(* The engine runs on one event loop.  An action is one run-to-completion  *)
(* step: a handler from its entry to its first await on real I/O or on a   *)
(* rendering-engine promise, or the continuation after such an await.      *)
(* Awaits of already settled promises (await cleanupBook(), await          *)
(* updateAppearanceTheme() with no controller, await Promise.resolve(..))  *)
(* are joined to the step that precedes them.                              *)
(*                                                                         *)
(* Text is a sequence of character codes.  Document handles (Book) and     *)
(* render surfaces (Rendition) are object identities: a number, 0 = null.  *)
(***************************************************************************)
EXTENDS Integers, Sequences, FiniteSets, TLC

\* ---------------------------------------------------------------- bounds
MaxTasks == 2        \* async invocations of the view that may be pending at once
MaxHandles == 2      \* identities available for Book / Rendition objects
MaxEpoch == 3        \* cap of prefetchSessionId (teardowns in one behaviour)
NumSections == 3     \* spine sections of a document (indexes 0..NumSections-1)
NumListeners == 1    \* toolbar listeners that may subscribe
NumCfis == 2         \* locations the rendering engine reports
MaxTurns == 1        \* page turns or jumps of one kind that may be pending at once
MaxClock == 352      \* the clock stops here (ms)
MaxFootClock == 2700 \* the clock of the footnote controller stops here (ms)

\* ------------------------------------------------------------- text model
HASH == 0            \* "#"
SP == 9              \* " "
DASH == 8            \* "-"
EmptyText == << >>   \* ""
Null == << -1 >>     \* null / undefined where a string may stand

IsPrefix(p, s) == Len(p) <= Len(s) /\ SubSeq(s, 1, Len(p)) = p

\* String.prototype.indexOf("#"): 0 when absent (positions are 1-based here)
IndexOfHash(s) ==
    IF \E i \in 1..Len(s) : s[i] = HASH
    THEN CHOOSE i \in 1..Len(s) : s[i] = HASH /\ \A j \in 1..(i - 1) : s[j] # HASH
    ELSE 0

RECURSIVE TrimLeft(_)
TrimLeft(s) == IF s # << >> /\ Head(s) = SP THEN TrimLeft(Tail(s)) ELSE s

RECURSIVE TrimRight(_)
TrimRight(s) ==
    IF s # << >> /\ s[Len(s)] = SP THEN TrimRight(SubSeq(s, 1, Len(s) - 1)) ELSE s

Trim(s) == TrimRight(TrimLeft(s))

\* normalizeHref: cut the fragment, decode, trim.  The hrefs of the model hold
\* no percent escape, on which decodeURIComponent returns its argument.
normalizeHref(href) ==
    LET hashIndex == IndexOfHash(href)
        withoutHash == IF hashIndex >= 1 THEN SubSeq(href, 1, hashIndex - 1) ELSE href
    IN  Trim(withoutHash)

RECURSIVE Repeat(_, _)
Repeat(s, n) == IF n = 0 THEN << >> ELSE s \o Repeat(s, n - 1)

\* ------------------------------------------------------------- documents
NoFile == "none"
Files == {"a", "b"}

Modes == {"spread-auto", "spread-always", "spread-none", "scroll-continuous"}

NoLoc == 0                       \* undefined location
Cfis == 1..NumCfis               \* location pointers; location c lies in section c
Start == NumCfis + 1             \* display() without target: the default start

\* href of spine section i (0-based): "1", "1/2", "1/2/3", ...
SectionHref(i) == [k \in 1..(i + 1) |-> k]

\* the relocated payload of the rendering engine for location c
RelocatedPayload(c) == [cfi |-> c, href |-> SectionHref(c), index |-> c]

\* navigation.toc of a document: NavItem = [label, href, subitems]
NavItem(l, h, subs) == [label |-> l, href |-> h, subitems |-> subs]

TocOf(f) ==
    IF f = "a"
    THEN << NavItem(<<5>>, <<1>>, << NavItem(<<6>>, <<1, 2, HASH, 4>>, << >>) >>) >>
    ELSE << NavItem(<<6>>, <<SP, 1, 2>>, << >>), NavItem(<<5>>, <<1>>, << >>) >>


\* ----------------------------------------------------------- mode resolver
AUTO_MIN_SPREAD_WIDTH == 800
ALWAYS_MIN_SPREAD_WIDTH == 0

\* getRenditionConfig as it would be if its last return were the single-page
\* configuration
getRenditionConfig_singleDefault(mode) ==
    IF mode = "spread-always"
    THEN [flow |-> "paginated", manager |-> "default", spread |-> "always",
          minSpreadWidth |-> ALWAYS_MIN_SPREAD_WIDTH]
    ELSE IF mode = "scroll-continuous"
    THEN [flow |-> "scrolled-continuous", manager |-> "continuous", spread |-> "none",
          minSpreadWidth |-> ALWAYS_MIN_SPREAD_WIDTH]
    ELSE [flow |-> "paginated", manager |-> "default", spread |-> "none",
          minSpreadWidth |-> AUTO_MIN_SPREAD_WIDTH]

getRenditionConfig(mode) ==
    IF mode = "spread-always"
    THEN [flow |-> "paginated", manager |-> "default", spread |-> "always",
          minSpreadWidth |-> ALWAYS_MIN_SPREAD_WIDTH]
    ELSE IF mode = "spread-none"
    THEN [flow |-> "paginated", manager |-> "default", spread |-> "none",
          minSpreadWidth |-> AUTO_MIN_SPREAD_WIDTH]
    ELSE IF mode = "scroll-continuous"
    THEN [flow |-> "scrolled-continuous", manager |-> "continuous", spread |-> "none",
          minSpreadWidth |-> ALWAYS_MIN_SPREAD_WIDTH]
    ELSE [flow |-> "paginated", manager |-> "default", spread |-> "auto",
          minSpreadWidth |-> AUTO_MIN_SPREAD_WIDTH]

\* isContinuousFlow as it would be if it knew only the plain scrolled flow
isContinuousFlow_scrolledOnly(flow) == flow = "scrolled"

isContinuousFlow(flow) ==
    flow = "scrolled" \/ flow = "scrolled-doc" \/ flow = "scrolled-continuous"

\* ------------------------------------------------------------------ state
VARIABLES
    file,                      \* FileView.file: path of the loaded file, NoFile = null
    closed,                    \* the view has been closed (onClose ran)
    book,                      \* this.book (0 = null)
    rendition,                 \* this.rendition (0 = null)
    toolbarTocItems,           \* this.toolbarTocItems
    tocLabelByHref,            \* this.tocLabelByHref
    toolbarChapterTitle,       \* this.toolbarChapterTitle
    toolbarSelectedHrefKey,    \* this.toolbarSelectedHrefKey (Null = null)
    toolbarStateListeners,     \* this.toolbarStateListeners
    prefetchedSectionIndexes,  \* this.prefetchedSectionIndexes
    prefetchInFlightIndexes,   \* this.prefetchInFlightIndexes
    lastPrefetchAnchorIndex,   \* this.lastPrefetchAnchorIndex (-1 = null)
    prefetchSessionId,         \* this.prefetchSessionId
    content,                   \* what readerContainerEl shows
    lastLocations,             \* plugin.settings.lastLocations
    pageDisplayMode,           \* plugin.settings.pageDisplayMode
    liveBooks,                 \* Book objects created and not destroyed
    books,                     \* per Book object: the file whose bytes it was opened from
    liveRends,                 \* Rendition objects created and not destroyed
    rends,                     \* per Rendition object: its fields
    tasks,                     \* pending async invocations (open, re-display)
    tocPending,                \* loadToc calls awaiting navigation, by targetBook
    prefetchPending,           \* section.load promises not settled: [index, epoch]
    received,                  \* per listener: the last snapshot it was called with
    notice,                    \* the Notice raised by the last step ("" = none)
    last,                      \* the step that ran last: its name, arguments and
                               \* this.book / this.rendition / location before it
    now,                       \* Date.now(), in ms since the view was created
    tapNavigationPendingGestures,  \* the pending gesture of the content document
    turns,                     \* rendition.prev/next/display promises of page turns
                               \* and jumps not settled, counted by kind
    states,                    \* FootnotePopoverController.states: the binding state
                               \* of the content document
    vault,                     \* the paths at which the vault holds a file
    saves,                     \* calls of plugin.saveSettings() made by the last step
    modeChangePending,         \* the onChange handler of the display-mode setting
                               \* awaits saveSettings()
    loadCalls,                 \* the section indexes of the section.load() calls made
                               \* by the last step, in the order of the calls
    prefetchFailures,          \* the section.load() promises on record as rejected:
                               \* [index, epoch]
    appearance,                \* the appearance theme: the plugin's setting, the host's
                               \* theme-dark class, the view's current themes and the
                               \* plugin's queue of the sync with the host
    injected                   \* the theme whose style rules the last step has added
                               \* to the contents of the rendition, "none" if none

vars == << file, closed, book, rendition, toolbarTocItems, tocLabelByHref,
           toolbarChapterTitle, toolbarSelectedHrefKey, toolbarStateListeners,
           prefetchedSectionIndexes, prefetchInFlightIndexes,
           lastPrefetchAnchorIndex, prefetchSessionId, content, lastLocations,
           pageDisplayMode, liveBooks, books, liveRends, rends, tasks, tocPending,
           prefetchPending, received, notice, last, now,
           tapNavigationPendingGestures, turns, states, vault, saves,
           modeChangePending, loadCalls, prefetchFailures, appearance, injected >>

\* what lies outside the session engine proper: the clock, the page turns and
\* the files of the vault
inputvars == << now, turns, vault >>

Handles == 1..MaxHandles
TaskIds == 1..MaxTasks
Listeners == 1..NumListeners
Sections == 0..(NumSections - 1)

NoRend == [book |-> 0, flow |-> "none", spread |-> "none", minSpreadWidth |-> 0,
           handler |-> FALSE, hooks |-> FALSE, loc |-> NoLoc, display |-> NoLoc]

IdleTask == [pc |-> "idle", file |-> NoFile, mode |-> "spread-auto", pref |-> NoLoc,
             via |-> "none", epoch |-> 0]

\* tapNavigationPendingGestures.get(document) is undefined
NoGesture == [touchIdentifier |-> -1, startX |-> 0, startY |-> 0, startedAt |-> 0,
              target |-> "none"]

TurnKinds == {"prev", "next", "jump"}
NoTurns == [k \in TurnKinds |-> 0]

\* BoundContentsState.pendingLongPress = null; a timer id is the time its timer
\* is due, -1 = null
NoPendingLongPress == [anchor |-> 0, timerId |-> -1, startX |-> 0, startY |-> 0,
                       fired |-> FALSE]

\* the content document is not in FootnotePopoverController.states; attached:
\* the rendering engine displays state.contents (rendition.getContents() lists it);
\* timers: the timeouts of the window that the controller has set for the
\* document and that have neither fired nor been cleared; popoverEls,
\* listenerSets: the popover elements in the document and the sets of listeners
\* on it that the controller has added and not removed
Unbound == [bound |-> FALSE, popover |-> 0, pendingLongPress |-> NoPendingLongPress,
            suppressClickAnchor |-> 0, suppressClickTimerId |-> -1,
            autoHideTimerId |-> -1, attached |-> FALSE, activeAnchor |-> 0,
            timers |-> {}, popoverEls |-> 0, listenerSets |-> 0]

EmptySnapshot == [canNavigate |-> FALSE, chapterTitle |-> EmptyText,
                  selectedHrefKey |-> Null, tocItems |-> << >>]

\* The fields a handler may change, as one record: handlers are functions of it.
Cur == [book |-> book, rendition |-> rendition,
        toolbarTocItems |-> toolbarTocItems, tocLabelByHref |-> tocLabelByHref,
        toolbarChapterTitle |-> toolbarChapterTitle,
        toolbarSelectedHrefKey |-> toolbarSelectedHrefKey,
        toolbarStateListeners |-> toolbarStateListeners,
        prefetchedSectionIndexes |-> prefetchedSectionIndexes,
        prefetchInFlightIndexes |-> prefetchInFlightIndexes,
        lastPrefetchAnchorIndex |-> lastPrefetchAnchorIndex,
        prefetchSessionId |-> prefetchSessionId, content |-> content,
        lastLocations |-> lastLocations, liveBooks |-> liveBooks, books |-> books,
        liveRends |-> liveRends, rends |-> rends, tocPending |-> tocPending,
        prefetchPending |-> prefetchPending, received |-> received,
        tapNavigationPendingGestures |-> tapNavigationPendingGestures,
        states |-> states,
        modeChangePending |-> modeChangePending,
        prefetchFailures |-> prefetchFailures,
        appearance |-> appearance,
        notice |-> "", saves |-> 0, loadCalls |-> << >>, injected |-> "none"]

Becomes(S) ==
    /\ book' = S.book
    /\ rendition' = S.rendition
    /\ toolbarTocItems' = S.toolbarTocItems
    /\ tocLabelByHref' = S.tocLabelByHref
    /\ toolbarChapterTitle' = S.toolbarChapterTitle
    /\ toolbarSelectedHrefKey' = S.toolbarSelectedHrefKey
    /\ toolbarStateListeners' = S.toolbarStateListeners
    /\ prefetchedSectionIndexes' = S.prefetchedSectionIndexes
    /\ prefetchInFlightIndexes' = S.prefetchInFlightIndexes
    /\ lastPrefetchAnchorIndex' = S.lastPrefetchAnchorIndex
    /\ prefetchSessionId' = S.prefetchSessionId
    /\ content' = S.content
    /\ lastLocations' = S.lastLocations
    /\ liveBooks' = S.liveBooks
    /\ books' = S.books
    /\ liveRends' = S.liveRends
    /\ rends' = S.rends
    /\ tocPending' = S.tocPending
    /\ prefetchPending' = S.prefetchPending
    /\ received' = S.received
    /\ tapNavigationPendingGestures' = S.tapNavigationPendingGestures
    /\ states' = S.states
    /\ notice' = S.notice
    /\ saves' = S.saves
    /\ modeChangePending' = S.modeChangePending
    /\ loadCalls' = S.loadCalls
    /\ prefetchFailures' = S.prefetchFailures
    /\ appearance' = S.appearance
    /\ injected' = S.injected

\* ---------------------------------------------------------- toolbar state
getToolbarState(S) ==
    [canNavigate |-> S.rendition # 0,
     chapterTitle |-> S.toolbarChapterTitle,
     selectedHrefKey |-> S.toolbarSelectedHrefKey,
     tocItems |-> S.toolbarTocItems]

notifyToolbarStateChange(S) ==
    [S EXCEPT !.received =
        [l \in Listeners |->
            IF l \in S.toolbarStateListeners THEN getToolbarState(S) ELSE S.received[l]]]

\* renderState(message, isError): readerContainerEl is set once onOpen has run
renderState(S, message) ==
    notifyToolbarStateChange(
        [S EXCEPT !.content = message,
                  !.toolbarChapterTitle = EmptyText,
                  !.toolbarSelectedHrefKey = Null])

\* ------------------------------------------------------ table of contents
MapSet(m, k, v) == [x \in (DOMAIN m) \cup {k} |-> IF x = k THEN v ELSE m[x]]
EmptyMap == [x \in {} |-> << >>]

RECURSIVE flattenTocItems(_, _)
flattenTocItems(items, depth) ==
    IF items = << >> THEN << >>
    ELSE LET item == Head(items)
             labelPrefix == IF depth > 0 THEN Repeat(<<SP, SP>>, depth) \o <<DASH, SP>>
                            ELSE << >>
         IN  << [label |-> labelPrefix \o item.label, value |-> item.href,
                 hrefKey |-> normalizeHref(item.href)] >>
             \o flattenTocItems(item.subitems, depth + 1)
             \o flattenTocItems(Tail(items), depth)

\* the tocLabelByHref.set calls of flattenTocItems, in its order of traversal
RECURSIVE flattenTocLabels(_, _)
flattenTocLabels(items, map) ==
    IF items = << >> THEN map
    ELSE LET item == Head(items)
             own == MapSet(map, normalizeHref(item.href), item.label)
         IN  flattenTocLabels(Tail(items), flattenTocLabels(item.subitems, own))

hasMatchingTocItem(S, hrefKey) ==
    \E i \in 1..Len(S.toolbarTocItems) : S.toolbarTocItems[i].hrefKey = hrefKey

populateToc(S, items) ==
    LET S1 == [S EXCEPT !.tocLabelByHref = flattenTocLabels(items, EmptyMap),
                        !.toolbarTocItems = flattenTocItems(items, 0)]
        S2 == IF S1.toolbarSelectedHrefKey # Null
                 /\ ~hasMatchingTocItem(S1, S1.toolbarSelectedHrefKey)
              THEN [S1 EXCEPT !.toolbarSelectedHrefKey = Null]
              ELSE S1
    IN  notifyToolbarStateChange(S2)

\* Array.prototype.find: the key of the first element in array order among the
\* indexes that pass the test, Null when none passes
FindFirstKey(items, hits) ==
    IF hits = {} THEN Null
    ELSE items[CHOOSE i \in hits : \A j \in hits : i <= j].hrefKey

findBestMatchingHrefKey(items, normalizedHref) ==
    LET exact == FindFirstKey(items,
                     {i \in 1..Len(items) : items[i].hrefKey = normalizedHref})
        partial == FindFirstKey(items,
                     {i \in 1..Len(items) :
                         \/ IsPrefix(items[i].hrefKey, normalizedHref)
                         \/ IsPrefix(normalizedHref, items[i].hrefKey)})
    IN  IF exact # Null THEN exact ELSE partial

\* updateCurrentSection as it would be if it selected the href of the location
\* itself
updateCurrentSection_rawKey(S, href) ==
    LET normalizedHref == normalizeHref(href)
        title == IF normalizedHref \in DOMAIN S.tocLabelByHref
                 THEN S.tocLabelByHref[normalizedHref] ELSE href
    IN  notifyToolbarStateChange(
            [S EXCEPT !.toolbarChapterTitle = title,
                      !.toolbarSelectedHrefKey = normalizedHref])

updateCurrentSection(S, href) ==
    LET normalizedHref == normalizeHref(href)
        title == IF normalizedHref \in DOMAIN S.tocLabelByHref
                 THEN S.tocLabelByHref[normalizedHref] ELSE href
    IN  notifyToolbarStateChange(
            [S EXCEPT !.toolbarChapterTitle = title,
                      !.toolbarSelectedHrefKey =
                          findBestMatchingHrefKey(S.toolbarTocItems, normalizedHref)])

\* -------------------------------------------------------------- teardown
\* rendition_off as it would be if cleanupBook did not detach the handler
rendition_off_skipped(S, r) == S

\* rendition.off("relocated", this.onRelocatedHandler)
rendition_off(S, r) == [S EXCEPT !.rends[r].handler = FALSE]

\* rendition.hooks.content.deregister(...) of the six content hook handlers
hooks_deregister(S, r) == [S EXCEPT !.rends[r].hooks = FALSE]

\* rendition.destroy(); this.rendition = null.  The destroyed object keeps only
\* its listener table.
rendition_destroy(S, r) ==
    [S EXCEPT !.rends[r] = [NoRend EXCEPT !.handler = S.rends[r].handler,
                                          !.hooks = S.rends[r].hooks],
              !.liveRends = @ \ {r},
              !.rendition = 0]

\* cleanupBook as it would be if it left the table of contents in place
cleanupBook_keepsToc(S) ==
    LET r == S.rendition
        b == S.book
        S1 == [S EXCEPT !.prefetchSessionId = @ + 1,
                        !.prefetchedSectionIndexes = {},
                        !.prefetchInFlightIndexes = {},
                        !.lastPrefetchAnchorIndex = -1]
        S2 == IF r # 0
              THEN rendition_destroy(hooks_deregister(rendition_off(S1, r), r), r)
              ELSE S1
        S3 == IF b # 0
              THEN [S2 EXCEPT !.liveBooks = @ \ {b}, !.books[b] = NoFile, !.book = 0]
              ELSE S2
    IN  notifyToolbarStateChange(
            [S3 EXCEPT !.toolbarChapterTitle = EmptyText,
                       !.toolbarSelectedHrefKey = Null,
                       !.tapNavigationPendingGestures = NoGesture,
                       !.states = Unbound])

\* cleanupBook: every call of the rendering engine in it returns normally
cleanupBook(S) ==
    LET r == S.rendition
        b == S.book
        S1 == [S EXCEPT !.prefetchSessionId = @ + 1,
                        !.prefetchedSectionIndexes = {},
                        !.prefetchInFlightIndexes = {},
                        !.lastPrefetchAnchorIndex = -1]
        S2 == IF r # 0
              THEN rendition_destroy(hooks_deregister(rendition_off(S1, r), r), r)
              ELSE S1
        \* book.destroy()
        S3 == IF b # 0
              THEN [S2 EXCEPT !.liveBooks = @ \ {b},
                              !.books[b] = NoFile,
                              !.book = 0]
              ELSE S2
    IN  notifyToolbarStateChange(
            [S3 EXCEPT !.tocLabelByHref = EmptyMap,
                       !.toolbarTocItems = << >>,
                       !.toolbarChapterTitle = EmptyText,
                       !.toolbarSelectedHrefKey = Null,
                       !.tapNavigationPendingGestures = NoGesture,
                       !.states = Unbound])

\* the calls of cleanupBook that may throw
CleanupSteps == {"off", "deregister", "getContents", "unbind", "destroyRendition",
                 "destroyBook", "destroyController"}

\* cleanupBook when the calls in fails throw: S is the state it leaves, threw
\* tells whether it rejected.  A call that throws has no effect; every call but
\* rendition.getContents() stands in a try block of its own.
cleanupBookWith(S, fails) ==
    LET r == S.rendition
        b == S.book
        S1 == [S EXCEPT !.prefetchSessionId = @ + 1,
                        !.prefetchedSectionIndexes = {},
                        !.prefetchInFlightIndexes = {},
                        !.lastPrefetchAnchorIndex = -1]
        S2 == IF r # 0 /\ "off" \notin fails THEN rendition_off(S1, r) ELSE S1
        S3 == IF r # 0 /\ "deregister" \notin fails THEN hooks_deregister(S2, r) ELSE S2
        \* footnoteController.unbindContents(contents) for the listed contents
        S4 == IF r # 0 /\ "unbind" \notin fails /\ S3.states.attached
              THEN [S3 EXCEPT !.states = Unbound] ELSE S3
        S5 == IF r = 0 THEN S4
              ELSE IF "destroyRendition" \notin fails THEN rendition_destroy(S4, r)
              ELSE [S4 EXCEPT !.rendition = 0]
        S6 == IF b = 0 THEN S5
              ELSE IF "destroyBook" \notin fails
              THEN [S5 EXCEPT !.liveBooks = @ \ {b}, !.books[b] = NoFile, !.book = 0]
              ELSE [S5 EXCEPT !.book = 0]
        S7 == IF "destroyController" \notin fails THEN [S6 EXCEPT !.states = Unbound]
              ELSE S6
    IN  IF r # 0 /\ "getContents" \in fails
        THEN [S |-> S3, threw |-> TRUE]
        ELSE [S |-> notifyToolbarStateChange(
                        [S7 EXCEPT !.tocLabelByHref = EmptyMap,
                                   !.toolbarTocItems = << >>,
                                   !.toolbarChapterTitle = EmptyText,
                                   !.toolbarSelectedHrefKey = Null,
                                   !.tapNavigationPendingGestures = NoGesture]),
              threw |-> FALSE]

\* -------------------------------------------------------------- prefetch
\* queueSectionPrefetch as it would be without the test of the two index sets
queueSectionPrefetch_noSkip(S, sectionIndex) ==
    IF S.book = 0 THEN S
    ELSE [S EXCEPT !.prefetchInFlightIndexes = @ \cup {sectionIndex},
                   !.loadCalls = Append(@, sectionIndex),
                   !.prefetchPending =
                       @ \cup {[index |-> sectionIndex, epoch |-> S.prefetchSessionId]}]

queueSectionPrefetch(S, sectionIndex) ==
    IF S.book = 0 THEN S
    ELSE IF sectionIndex \in S.prefetchedSectionIndexes
            \/ sectionIndex \in S.prefetchInFlightIndexes
    THEN S
    ELSE [S EXCEPT !.prefetchInFlightIndexes = @ \cup {sectionIndex},
                   !.loadCalls = Append(@, sectionIndex),
                   !.prefetchPending =
                       @ \cup {[index |-> sectionIndex, epoch |-> S.prefetchSessionId]}]

\* book.spine.get(index), section.prev() and section.next(): every section is
\* linear, so the neighbours are the adjacent indexes
prefetchAdjacentSections(S, location, settingMode) ==
    IF S.book = 0 \/ S.rendition = 0 THEN S
    ELSE IF settingMode # "scroll-continuous" THEN S
    ELSE IF location.index \notin Sections THEN S
    ELSE LET anchorIndex == location.index
         IN  IF S.lastPrefetchAnchorIndex = anchorIndex THEN S
             ELSE LET S1 == [S EXCEPT !.lastPrefetchAnchorIndex = anchorIndex]
                      S2 == IF anchorIndex - 1 \in Sections
                            THEN queueSectionPrefetch(S1, anchorIndex - 1) ELSE S1
                  IN  IF anchorIndex + 1 \in Sections
                      THEN queueSectionPrefetch(S2, anchorIndex + 1) ELSE S2

\* prefetchSettled as it would be without the comparison of session ids
prefetchSettled_unguarded(S, p, ok) ==
    [S EXCEPT !.prefetchedSectionIndexes = IF ok THEN @ \cup {p.index} ELSE @,
              !.prefetchInFlightIndexes = @ \ {p.index}]

\* the three callbacks chained on section.load(): then / catch / finally
prefetchSettled(S, p, ok) ==
    IF p.epoch # S.prefetchSessionId THEN S
    ELSE [S EXCEPT !.prefetchedSectionIndexes = IF ok THEN @ \cup {p.index} ELSE @,
                   !.prefetchInFlightIndexes = @ \ {p.index}]

\* ------------------------------------------------------ location store
getLastLocation(locations, filePath) == locations[filePath]

\* setLastLocation as it would be without the comparison with the stored value
setLastLocation_always(S, filePath, cfi) ==
    [S EXCEPT !.lastLocations[filePath] = cfi, !.saves = @ + 1]

setLastLocation(S, filePath, cfi) ==
    IF S.lastLocations[filePath] = cfi THEN S
    ELSE [S EXCEPT !.lastLocations[filePath] = cfi, !.saves = @ + 1]

\* ------------------------------------------------------------ relocation
onRelocatedHandler(S, location, viewFile, settingMode) ==
    LET S1 == updateCurrentSection(S, location.href)
        S2 == IF viewFile # NoFile THEN setLastLocation(S1, viewFile, location.cfi) ELSE S1
    IN  prefetchAdjacentSections(S2, location, settingMode)

\* ------------------------------------------------------------------- open
\* the catch block of openFileWithMode
openFailed(S) == renderState([S EXCEPT !.notice = "open-failed"], "error")

\* ------------------------------------------------------ appearance theme
Themes == {"auto", "light", "dark", "sepia"}

\* appearanceTheme: plugin.settings.appearanceTheme; themeDark: document.body has
\* the class theme-dark; frames: the callbacks of requestAnimationFrame that the
\* plugin has pending
DefaultAppearance ==
    [appearanceTheme |-> "auto", themeDark |-> FALSE,
     currentAppearanceTheme |-> "auto", currentResolvedAppearanceTheme |-> "light",
     isAutoAppearanceThemeSyncQueued |-> FALSE, frames |-> 0]

resolveAppearanceTheme(S, theme) ==
    IF theme # "auto" THEN theme
    ELSE IF S.appearance.themeDark THEN "dark" ELSE "light"

\* updateAppearanceTheme as it would be if it compared the resolved themes only
updateAppearanceTheme_resolvedOnly(S, theme) ==
    LET resolvedTheme == resolveAppearanceTheme(S, theme)
        shouldUpdateContents ==
            S.appearance.currentResolvedAppearanceTheme # resolvedTheme
        S1 == [S EXCEPT !.appearance.currentAppearanceTheme = theme,
                        !.appearance.currentResolvedAppearanceTheme = resolvedTheme]
    IN  IF S.rendition = 0 \/ ~shouldUpdateContents THEN S1
        ELSE [S1 EXCEPT !.injected = resolvedTheme]

\* applyAppearanceThemeToRenditionContents adds the rules of the resolved theme
\* to every document of rendition.getContents()
updateAppearanceTheme(S, theme) ==
    LET resolvedTheme == resolveAppearanceTheme(S, theme)
        shouldUpdateContents ==
            \/ S.appearance.currentAppearanceTheme # theme
            \/ S.appearance.currentResolvedAppearanceTheme # resolvedTheme
        S1 == [S EXCEPT !.appearance.currentAppearanceTheme = theme,
                        !.appearance.currentResolvedAppearanceTheme = resolvedTheme]
    IN  IF S.rendition = 0 \/ ~shouldUpdateContents THEN S1
        ELSE [S1 EXCEPT !.injected = resolvedTheme]

\* the plugin calls updateAppearanceTheme of every open view
applyAppearanceThemeToOpenViews(S, isClosed, theme) ==
    IF isClosed THEN S ELSE updateAppearanceTheme(S, theme)

\* queueAutoAppearanceThemeSync as it would be without the pending flag
queueAutoAppearanceThemeSync_noFlag(S) ==
    IF S.appearance.appearanceTheme # "auto" THEN S
    ELSE [S EXCEPT !.appearance.isAutoAppearanceThemeSyncQueued = TRUE,
                   !.appearance.frames = @ + 1]

queueAutoAppearanceThemeSync(S) ==
    IF S.appearance.appearanceTheme # "auto" \/ S.appearance.isAutoAppearanceThemeSyncQueued
    THEN S
    ELSE [S EXCEPT !.appearance.isAutoAppearanceThemeSyncQueued = TRUE,
                   !.appearance.frames = @ + 1]

\* the callback that queueAutoAppearanceThemeSync hands to requestAnimationFrame
autoAppearanceThemeSyncFrame(S, isClosed) ==
    LET S1 == [S EXCEPT !.appearance.isAutoAppearanceThemeSyncQueued = FALSE,
                        !.appearance.frames = @ - 1]
    IN  IF S1.appearance.appearanceTheme # "auto" THEN S1
        ELSE applyAppearanceThemeToOpenViews(S1, isClosed, "auto")

\* openFileWithMode up to the await of vault.readBinary(file)
openBegin(S) ==
    renderState(updateAppearanceTheme(cleanupBook(S), S.appearance.appearanceTheme),
                "loading")

\* an object identity no live object and no pending reference holds
FreshBook(S) ==
    CHOOSE i \in Handles :
        LET Free(j) == /\ j \notin S.liveBooks
                       /\ j \notin S.tocPending
                       /\ \A r \in S.liveRends : S.rends[r].book # j
        IN  Free(i) /\ \A j \in 1..(i - 1) : ~Free(j)

HasFreshBook(S) ==
    \E i \in Handles : /\ i \notin S.liveBooks
                       /\ i \notin S.tocPending
                       /\ \A r \in S.liveRends : S.rends[r].book # i

FreshRend(S) == CHOOSE i \in Handles : i \notin S.liveRends /\ \A j \in 1..(i - 1) : j \in S.liveRends

HasFreshRend(S) == \E i \in Handles : i \notin S.liveRends

\* this.book = ePub(); this.book.open(buffer, "binary")
openCreateBook(S, f) ==
    LET nb == FreshBook(S)
    IN  [S EXCEPT !.book = nb, !.liveBooks = @ \cup {nb}, !.books[nb] = f]

\* this.rendition.display(target) is called: the request is recorded on the object
requestDisplay(S, target) == [S EXCEPT !.rends[S.rendition].display = target]

\* openFileWithMode from the resolved book.open to the first display request;
\* this.book.renderTo throws a TypeError when this.book is null
openCreateRendition(S, mode) ==
    LET config == getRenditionConfig(mode)
        nr == FreshRend(S)
        S1 == [S EXCEPT !.content = "book",
                        !.rendition = nr,
                        !.liveRends = @ \cup {nr},
                        !.rends[nr] = [book |-> S.book, flow |-> config.flow,
                                       spread |-> config.spread,
                                       minSpreadWidth |-> config.minSpreadWidth,
                                       handler |-> TRUE, hooks |-> TRUE,
                                       loc |-> NoLoc, display |-> NoLoc]]
    IN  \* void this.loadToc(): this.book is set here, the load of targetBook starts
        [S1 EXCEPT !.tocPending = @ \cup {S.book}]

\* tocSettled as it would be without the comparison of this.book with targetBook
tocSettled_unguarded(S, targetBook, ok) ==
    populateToc([S EXCEPT !.tocPending = @ \ {targetBook}],
                IF ok THEN TocOf(S.books[targetBook]) ELSE << >>)

\* loadToc after its await: the result is applied only to the book it was asked of
tocSettled(S, targetBook, ok) ==
    LET S1 == [S EXCEPT !.tocPending = @ \ {targetBook}]
    IN  IF S1.book # targetBook THEN S1
        ELSE populateToc(S1, IF ok THEN TocOf(S1.books[targetBook]) ELSE << >>)

\* ---------------------------------------------------------------- actions
Init ==
    /\ file = NoFile
    /\ closed = FALSE
    /\ book = 0
    /\ rendition = 0
    /\ toolbarTocItems = << >>
    /\ tocLabelByHref = EmptyMap
    /\ toolbarChapterTitle = EmptyText
    /\ toolbarSelectedHrefKey = Null
    /\ toolbarStateListeners = {}
    /\ prefetchedSectionIndexes = {}
    /\ prefetchInFlightIndexes = {}
    /\ lastPrefetchAnchorIndex = -1
    /\ prefetchSessionId = 0
    /\ content = "empty"
    /\ lastLocations = [f \in Files |-> NoLoc]
    /\ pageDisplayMode = "spread-auto"
    /\ liveBooks = {}
    /\ books = [b \in Handles |-> NoFile]
    /\ liveRends = {}
    /\ rends = [r \in Handles |-> NoRend]
    /\ tasks = [t \in TaskIds |-> IdleTask]
    /\ tocPending = {}
    /\ prefetchPending = {}
    /\ received = [l \in Listeners |-> EmptySnapshot]
    /\ notice = ""
    /\ last = [op |-> "init", arg |-> 0, val |-> 0, mode |-> "", preBook |-> 0,
               preRend |-> 0, preLoc |-> NoLoc]
    /\ now = 0 /\ tapNavigationPendingGestures = NoGesture /\ turns = NoTurns /\ states = Unbound /\ vault = Files /\ saves = 0 /\ modeChangePending = FALSE /\ loadCalls = << >> /\ prefetchFailures = {} /\ appearance = DefaultAppearance /\ injected = "none"

\* the record of the step taken
Record(op, a, v, m) ==
    last' = [op |-> op, arg |-> a, val |-> v, mode |-> m, preBook |-> book,
             preRend |-> rendition,
             preLoc |-> IF rendition = 0 THEN NoLoc ELSE rends[rendition].loc]

\* a step of the session engine: it reads no clock and starts or ends no turn
DidMode(op, a, v, m) == Record(op, a, v, m) /\ UNCHANGED inputvars

Did(op, a, v) == DidMode(op, a, v, "")

HasIdleTask == \E t \in TaskIds : tasks[t].pc = "idle"
IdleTaskId == CHOOSE t \in TaskIds : tasks[t].pc = "idle" /\ \A u \in 1..(t - 1) : tasks[u].pc # "idle"

\* epoch: prefetchSessionId when the invocation starts; the code keeps no such
\* record, the claims about superseded invocations read it
StartTask(rec) ==
    tasks' = [tasks EXCEPT ![IdleTaskId] =
                 [pc |-> rec.pc, file |-> rec.file, mode |-> rec.mode, pref |-> rec.pref,
                  via |-> rec.via, epoch |-> prefetchSessionId']]
EndTask(t) == tasks' = [tasks EXCEPT ![t] = IdleTask]
MoveTask(t, pc) == tasks' = [tasks EXCEPT ![t].pc = pc]

\* FileView loads a file into the view: this.file = file; onLoadFile(file)
OnLoadFile(f, reopenAtLastPosition) ==
    /\ ~closed /\ file = NoFile
    /\ prefetchSessionId < MaxEpoch /\ HasIdleTask
    /\ LET savedLocation == IF reopenAtLastPosition
                            THEN getLastLocation(lastLocations, f) ELSE NoLoc
       IN  /\ Becomes(openBegin(Cur))
           /\ StartTask([pc |-> "read", file |-> f, mode |-> pageDisplayMode,
                         pref |-> savedLocation, via |-> "onLoadFile", epoch |-> 0])
    /\ file' = f
    /\ Did("open", 0, 0)
    /\ UNCHANGED << closed, pageDisplayMode >>

\* FileView unloads the file: onUnloadFile(); this.file = null
OnUnloadFile ==
    /\ ~closed /\ file # NoFile
    /\ prefetchSessionId < MaxEpoch
    /\ Becomes(renderState(cleanupBook(Cur), "empty"))
    /\ file' = NoFile
    /\ Did("unload", 0, 0)
    /\ UNCHANGED << closed, pageDisplayMode, tasks >>

\* onUnloadFile() when calls of its cleanupBook throw: a rejection of cleanupBook
\* ends onUnloadFile before renderState
OnUnloadFileWith(fails) ==
    LET res == cleanupBookWith(Cur, fails)
    IN  /\ ~closed /\ file # NoFile
        /\ prefetchSessionId < MaxEpoch
        /\ Becomes(IF res.threw THEN res.S ELSE renderState(res.S, "empty"))
        /\ file' = NoFile
        /\ Did("unload", Cardinality(fails), IF res.threw THEN 1 ELSE 0)
        /\ UNCHANGED << closed, pageDisplayMode, tasks >>

\* the view is closed: onClose()
OnClose ==
    /\ ~closed /\ file = NoFile
    /\ prefetchSessionId < MaxEpoch
    /\ Becomes([cleanupBook(Cur) EXCEPT !.toolbarStateListeners = {},
                                        !.content = "closed"])
    /\ closed' = TRUE
    /\ Did("close", 0, 0)
    /\ UNCHANGED << file, pageDisplayMode, tasks >>

\* vault.readBinary(file) settles
OpenReadDone(t, ok) ==
    /\ tasks[t].pc = "read"
    /\ IF ok
       THEN /\ HasFreshBook(Cur)
            /\ Becomes(openCreateBook(Cur, tasks[t].file))
            /\ MoveTask(t, "parse")
            /\ Did("open-read", 0, 0)
       ELSE /\ Becomes(openFailed(Cur))
            /\ EndTask(t)
            /\ Did("open-failed", 0, 0)
    /\ UNCHANGED << file, closed, pageDisplayMode >>

\* book.open(buffer) settles or its 10 s timeout fires
OpenParseDone(t, ok) ==
    /\ tasks[t].pc = "parse"
    /\ IF ok /\ book # 0
       THEN /\ HasFreshRend(Cur)
            /\ LET S1 == openCreateRendition(Cur, tasks[t].mode)
               IN  IF tasks[t].pref # NoLoc
                   THEN /\ Becomes(requestDisplay(S1, tasks[t].pref))
                        /\ MoveTask(t, "display-saved")
                   ELSE /\ Becomes(requestDisplay(S1, Start))
                        /\ MoveTask(t, "display-start")
            /\ Did("open-render", 0, 0)
       ELSE /\ Becomes(openFailed(Cur))
            /\ EndTask(t)
            /\ Did("open-failed", 0, 0)
    /\ UNCHANGED << file, closed, pageDisplayMode >>

\* openFileWithMode after displayWithFallback returned: this.rendition.reportLocation()
\* throws a TypeError when this.rendition is null
openDisplayed(t) ==
    IF rendition # 0
    THEN /\ Becomes(Cur)
         /\ EndTask(t)
         /\ Did("open-done", tasks[t].pref, 0)
    ELSE /\ Becomes(openFailed(Cur))
         /\ EndTask(t)
         /\ Did("open-failed", 0, 0)

\* OpenDisplaySavedDone as it would be if displayWithFallback did not catch
OpenDisplaySavedDone_uncaught(t, ok) ==
    /\ tasks[t].pc = "display-saved"
    /\ IF ok
       THEN openDisplayed(t)
       ELSE /\ Becomes(openFailed(Cur))
            /\ EndTask(t)
            /\ Did("open-failed", 0, 0)
    /\ UNCHANGED << file, closed, pageDisplayMode >>

\* rendition.display(savedLocation) settles or its 8 s timeout fires
OpenDisplaySavedDone(t, ok) ==
    /\ tasks[t].pc = "display-saved"
    /\ IF ok
       THEN openDisplayed(t)
       ELSE IF rendition # 0
       THEN /\ Becomes(requestDisplay(Cur, Start))
            /\ MoveTask(t, "display-start")
            /\ Did("open-fallback", 0, 0)
       ELSE /\ Becomes(openFailed(Cur))
            /\ EndTask(t)
            /\ Did("open-failed", 0, 0)
    /\ UNCHANGED << file, closed, pageDisplayMode >>

\* rendition.display() settles or its 8 s timeout fires
OpenDisplayStartDone(t, ok) ==
    /\ tasks[t].pc = "display-start"
    /\ IF ok
       THEN openDisplayed(t)
       ELSE /\ Becomes(openFailed(Cur))
            /\ EndTask(t)
            /\ Did("open-failed", 0, 0)
    /\ UNCHANGED << file, closed, pageDisplayMode >>

\* rendition.currentLocation() through extractCurrentCfi
currentCfi(S) == S.rends[S.rendition].loc

\* updatePageDisplayMode(mode) called in state S0
updatePageDisplayMode(S0, mode) ==
    /\ ~closed
    /\ LET nextConfig == getRenditionConfig(mode)
       IN  IF rendition = 0
           THEN /\ Becomes(S0) /\ UNCHANGED tasks /\ DidMode("mode-none", 0, 0, mode)
           ELSE IF isContinuousFlow(rends[rendition].flow) # isContinuousFlow(nextConfig.flow)
           THEN IF file = NoFile
                THEN /\ Becomes(S0) /\ UNCHANGED tasks /\ DidMode("mode-nofile", 0, 0, mode)
                ELSE /\ prefetchSessionId < MaxEpoch /\ HasIdleTask
                     /\ Becomes(openBegin(S0))
                     /\ StartTask([pc |-> "read", file |-> file, mode |-> mode,
                                   pref |-> currentCfi(S0),
                                   via |-> "updatePageDisplayMode", epoch |-> 0])
                     /\ DidMode("mode-reopen", 0, 0, mode)
           ELSE /\ HasIdleTask
                /\ LET S1 == [S0 EXCEPT !.rends[rendition].minSpreadWidth =
                                             nextConfig.minSpreadWidth,
                                        !.rends[rendition].flow = nextConfig.flow,
                                        !.rends[rendition].spread = nextConfig.spread]
                   IN  Becomes(requestDisplay(S1, IF currentCfi(S0) # NoLoc
                                                  THEN currentCfi(S0) ELSE Start))
                /\ StartTask([IdleTask EXCEPT !.pc = "redisplay"])
                /\ DidMode("mode-patch", 0, 0, mode)
    /\ UNCHANGED << file, closed, pageDisplayMode >>

\* a caller other than the settings tab calls updatePageDisplayMode(mode)
UpdatePageDisplayMode(mode) == updatePageDisplayMode(Cur, mode)

\* the onChange handler of the display-mode dropdown up to its await of
\* saveSettings(); one handler is pending at a time
OnChangePageDisplayMode(value) ==
    /\ ~modeChangePending
    /\ Becomes([Cur EXCEPT !.modeChangePending = TRUE, !.saves = 1])
    /\ pageDisplayMode' = value
    /\ DidMode("setting", 0, 0, value)
    /\ UNCHANGED << file, closed, tasks >>

\* saveSettings() has resolved: applyPageDisplayModeToOpenViews() calls
\* updatePageDisplayMode of the view with the stored mode
ApplyPageDisplayModeToOpenViews ==
    /\ modeChangePending
    /\ IF closed
       THEN /\ Becomes([Cur EXCEPT !.modeChangePending = FALSE])
            /\ Did("mode-noview", 0, 0)
            /\ UNCHANGED << file, closed, pageDisplayMode, tasks >>
       ELSE updatePageDisplayMode([Cur EXCEPT !.modeChangePending = FALSE],
                                  pageDisplayMode)

\* the re-display of updatePageDisplayMode settles or its 8 s timeout fires;
\* either way the handler only logs
RedisplayDone(t, ok) ==
    /\ tasks[t].pc = "redisplay"
    /\ Becomes(Cur)
    /\ EndTask(t)
    /\ Did("mode-done", 0, 0)
    /\ UNCHANGED << file, closed, pageDisplayMode >>

\* the rendering engine reports a relocation of rendition r to location c
Relocated(r, c) ==
    /\ r \in liveRends
    /\ LET S1 == [Cur EXCEPT !.rends[r].loc = c]
       IN  IF rends[r].handler
           THEN Becomes(onRelocatedHandler(S1, RelocatedPayload(c), file, pageDisplayMode))
           ELSE Becomes(S1)
    /\ Did("relocated", r, c)
    /\ UNCHANGED << file, closed, pageDisplayMode, tasks >>

\* targetBook.loaded.navigation settles or the 8 s timeout of loadToc fires
TocLoaded(b, ok) ==
    /\ b \in tocPending
    /\ Becomes(tocSettled(Cur, b, ok))
    /\ Did("toc", b, IF ok THEN 1 ELSE 0)
    /\ UNCHANGED << file, closed, pageDisplayMode, tasks >>

\* a section.load() promise settles in state S0
prefetchDone(S0, p, ok) ==
    /\ p \in prefetchPending
    /\ Becomes(prefetchSettled([S0 EXCEPT !.prefetchPending = @ \ {p}], p, ok))
    /\ Did("prefetch", p.index, p.epoch)
    /\ UNCHANGED << file, closed, pageDisplayMode, tasks >>

PrefetchDone(p, ok) == prefetchDone(Cur, p, ok)

\* a section.load() promise is rejected and the rejection is kept on record
PrefetchRejected(p) ==
    prefetchDone([Cur EXCEPT !.prefetchFailures = @ \cup {p}], p, FALSE)

\* onToolbarStateChange(listener): the listener is called at once
Subscribe(l) ==
    /\ ~closed /\ l \notin toolbarStateListeners
    /\ Becomes([Cur EXCEPT !.toolbarStateListeners = @ \cup {l},
                           !.received[l] = getToolbarState(Cur)])
    /\ Did("subscribe", 0, 0)
    /\ UNCHANGED << file, closed, pageDisplayMode, tasks >>

\* the function returned by onToolbarStateChange
Unsubscribe(l) ==
    /\ l \in toolbarStateListeners
    /\ Becomes([Cur EXCEPT !.toolbarStateListeners = @ \ {l}])
    /\ Did("unsubscribe", 0, 0)
    /\ UNCHANGED << file, closed, pageDisplayMode, tasks >>

\* ------------------------------------------------- page turns and jumps
\* turnPage as it would be if a call without session returned in silence
turnPage_silent(kind) ==
    IF rendition = 0
    THEN /\ Becomes(Cur)
         /\ turns' = turns
    ELSE /\ Becomes(Cur)
         /\ turns' = [turns EXCEPT ![kind] = @ + 1]

\* prevPage() / nextPage() up to the await of rendition.prev() / rendition.next()
turnPage(kind) ==
    IF rendition = 0
    THEN /\ Becomes([Cur EXCEPT !.notice = "not-open"])
         /\ turns' = turns
    ELSE /\ Becomes(Cur)
         /\ turns' = [turns EXCEPT ![kind] = @ + 1]

\* the toolbar or a command calls prevPage() / nextPage()
PageCommand(kind) ==
    /\ ~closed /\ kind \in {"prev", "next"}
    /\ turns[kind] < MaxTurns
    /\ turnPage(kind)
    /\ Record(kind, 0, 0, "")
    /\ UNCHANGED << file, closed, pageDisplayMode, tasks, now, vault >>

\* jumpToSection(href) up to the await of rendition.display(href)
JumpToSection(href) ==
    /\ ~closed
    /\ turns["jump"] < MaxTurns
    /\ Becomes(Cur)
    /\ turns' = IF rendition = 0 \/ href = EmptyText
                THEN turns ELSE [turns EXCEPT !["jump"] = @ + 1]
    /\ Record("jump", Len(href), 0, "")
    /\ UNCHANGED << file, closed, pageDisplayMode, tasks, now, vault >>

\* the user picks option i of the TOC dropdown of the view, 0 = the placeholder
\* whose value is empty: jumpToSelectedSection, with jumpToSection up to its await
jumpToSelectedSection(S, i) ==
    LET selected == IF i = 0 THEN EmptyText ELSE S.toolbarTocItems[i].value
    IN  IF selected = EmptyText THEN S
        ELSE notifyToolbarStateChange(
                 [S EXCEPT !.toolbarSelectedHrefKey = normalizeHref(selected)])

JumpToSelectedSection(i) ==
    /\ ~closed
    /\ i <= Len(toolbarTocItems)
    /\ turns["jump"] < MaxTurns
    /\ Becomes(jumpToSelectedSection(Cur, i))
    /\ turns' = IF rendition = 0 \/ i = 0 \/ toolbarTocItems[i].value = EmptyText
                THEN turns ELSE [turns EXCEPT !["jump"] = @ + 1]
    /\ Record("toc-jump", i, 0, "")
    /\ UNCHANGED << file, closed, pageDisplayMode, tasks, now, vault >>

\* rendition.prev(), rendition.next() or rendition.display(href) settles: the
\* catch block of prevPage / nextPage / jumpToSection raises the notice
TurnDone(kind, ok) ==
    /\ turns[kind] > 0
    /\ turns' = [turns EXCEPT ![kind] = @ - 1]
    /\ Becomes([Cur EXCEPT !.notice = IF ok THEN "" ELSE "navigation-failed"])
    /\ Record("turn-done", IF ok THEN 1 ELSE 0, 0, kind)
    /\ UNCHANGED << file, closed, pageDisplayMode, tasks, now, vault >>

\* --------------------------------------------------------- tap navigation
TAP_NAVIGATION_LEFT_ZONE_MAX_RATIO == 4      \* tenths: 0.4
TAP_NAVIGATION_RIGHT_ZONE_MIN_RATIO == 6     \* tenths: 0.6
TAP_NAVIGATION_MAX_DURATION_MS == 350
TAP_NAVIGATION_MAX_MOVE_PX == 10

Abs(x) == IF x < 0 THEN -x ELSE x

NoTouch == [identifier |-> -1, clientX |-> 0, clientY |-> 0]

findTouchByIdentifier(touches, identifier) ==
    LET hits == {i \in 1..Len(touches) : touches[i].identifier = identifier}
    IN  IF hits = {} THEN NoTouch
        ELSE touches[CHOOSE i \in hits : \A j \in hits : i <= j]

\* isTapNavigationIgnoredTarget as it would be if closest() never matched
isTapNavigationIgnoredTarget_never(target) == FALSE

\* closest("a, button, input, ...") of the target is not null
isTapNavigationIgnoredTarget(target) == target = "link"

\* env: what the handler reads from the workspace and the content document
shouldHandleTapNavigationEvent(S, event, env, settingMode) ==
    /\ ~event.defaultPrevented
    /\ S.rendition # 0
    /\ env.active
    /\ settingMode # "scroll-continuous"
    /\ env.defaultView

handleTapNavigationTouchStart(S, event, env, settingMode, clock) ==
    IF ~shouldHandleTapNavigationEvent(S, event, env, settingMode)
    THEN [S EXCEPT !.tapNavigationPendingGestures = NoGesture]
    ELSE IF Len(event.touches) # 1
    THEN [S EXCEPT !.tapNavigationPendingGestures = NoGesture]
    ELSE LET touch == event.touches[1]
         IN  [S EXCEPT !.tapNavigationPendingGestures =
                 [touchIdentifier |-> touch.identifier, startX |-> touch.clientX,
                  startY |-> touch.clientY, startedAt |-> clock,
                  target |-> event.target]]

\* handleTapNavigationTouchMove as it would be if it ignored the distance moved
handleTapNavigationTouchMove_keepsGesture(S, event) ==
    LET pending == S.tapNavigationPendingGestures
        touch == findTouchByIdentifier(event.touches, pending.touchIdentifier)
    IN  IF pending = NoGesture THEN S
        ELSE IF Len(event.touches) # 1 \/ touch = NoTouch
        THEN [S EXCEPT !.tapNavigationPendingGestures = NoGesture]
        ELSE S

handleTapNavigationTouchMove(S, event) ==
    LET pending == S.tapNavigationPendingGestures
        touch == findTouchByIdentifier(event.touches, pending.touchIdentifier)
    IN  IF pending = NoGesture THEN S
        ELSE IF Len(event.touches) # 1 \/ touch = NoTouch
        THEN [S EXCEPT !.tapNavigationPendingGestures = NoGesture]
        ELSE IF \/ Abs(touch.clientX - pending.startX) > TAP_NAVIGATION_MAX_MOVE_PX
                \/ Abs(touch.clientY - pending.startY) > TAP_NAVIGATION_MAX_MOVE_PX
        THEN [S EXCEPT !.tapNavigationPendingGestures = NoGesture]
        ELSE S

\* tapNavigationTurn as it would be if only the zone of the lifted touch counted
tapNavigationTurn_zonesOnly(S, event, env, settingMode, clock) ==
    LET pending == S.tapNavigationPendingGestures
        endedTouch == findTouchByIdentifier(event.changedTouches, pending.touchIdentifier)
    IN  IF pending = NoGesture THEN "none"
        ELSE IF endedTouch = NoTouch THEN "none"
        ELSE IF endedTouch.clientX * 10 <= TAP_NAVIGATION_LEFT_ZONE_MAX_RATIO * env.width
        THEN "prev"
        ELSE IF endedTouch.clientX * 10 >= TAP_NAVIGATION_RIGHT_ZONE_MIN_RATIO * env.width
        THEN "next"
        ELSE "none"

\* tapNavigationTurn as it would be with zones that exclude their borders
tapNavigationTurn_openZones(S, event, env, settingMode, clock) ==
    LET pending == S.tapNavigationPendingGestures
        endedTouch == findTouchByIdentifier(event.changedTouches, pending.touchIdentifier)
    IN  IF pending = NoGesture THEN "none"
        ELSE IF ~shouldHandleTapNavigationEvent(S, event, env, settingMode) THEN "none"
        ELSE IF Len(event.touches) > 0 THEN "none"
        ELSE IF endedTouch = NoTouch THEN "none"
        ELSE IF clock - pending.startedAt > TAP_NAVIGATION_MAX_DURATION_MS THEN "none"
        ELSE IF \/ Abs(endedTouch.clientX - pending.startX) > TAP_NAVIGATION_MAX_MOVE_PX
                \/ Abs(endedTouch.clientY - pending.startY) > TAP_NAVIGATION_MAX_MOVE_PX
        THEN "none"
        ELSE IF env.selection THEN "none"
        ELSE IF \/ isTapNavigationIgnoredTarget(pending.target)
                \/ isTapNavigationIgnoredTarget(event.target)
        THEN "none"
        ELSE IF env.width <= 0 THEN "none"
        ELSE IF endedTouch.clientX * 10 < TAP_NAVIGATION_LEFT_ZONE_MAX_RATIO * env.width
        THEN "prev"
        ELSE IF endedTouch.clientX * 10 > TAP_NAVIGATION_RIGHT_ZONE_MIN_RATIO * env.width
        THEN "next"
        ELSE "none"

\* the page turn handleTapNavigationTouchEnd asks for: "prev", "next" or "none";
\* positionRatio = clientX / viewportWidth is compared in tenths
tapNavigationTurn(S, event, env, settingMode, clock) ==
    LET pending == S.tapNavigationPendingGestures
        endedTouch == findTouchByIdentifier(event.changedTouches, pending.touchIdentifier)
    IN  IF pending = NoGesture THEN "none"
        ELSE IF ~shouldHandleTapNavigationEvent(S, event, env, settingMode) THEN "none"
        ELSE IF Len(event.touches) > 0 THEN "none"
        ELSE IF endedTouch = NoTouch THEN "none"
        ELSE IF clock - pending.startedAt > TAP_NAVIGATION_MAX_DURATION_MS THEN "none"
        ELSE IF \/ Abs(endedTouch.clientX - pending.startX) > TAP_NAVIGATION_MAX_MOVE_PX
                \/ Abs(endedTouch.clientY - pending.startY) > TAP_NAVIGATION_MAX_MOVE_PX
        THEN "none"
        ELSE IF env.selection THEN "none"
        ELSE IF \/ isTapNavigationIgnoredTarget(pending.target)
                \/ isTapNavigationIgnoredTarget(event.target)
        THEN "none"
        ELSE IF env.width <= 0 THEN "none"
        ELSE IF endedTouch.clientX * 10 <= TAP_NAVIGATION_LEFT_ZONE_MAX_RATIO * env.width
        THEN "prev"
        ELSE IF endedTouch.clientX * 10 >= TAP_NAVIGATION_RIGHT_ZONE_MIN_RATIO * env.width
        THEN "next"
        ELSE "none"

\* touch coordinates, touch lists, events and environments offered to the handlers
Xs == {8, 20, 21, 29, 30}
Ys == {0, 10, 21}
Touches == [identifier : {0}, clientX : Xs, clientY : Ys]
SecondTouch == [identifier |-> 1, clientX |-> 25, clientY |-> 0]
PlainEnv == [active |-> TRUE, defaultView |-> TRUE, selection |-> FALSE, width |-> 50]
TapEnvs == {PlainEnv, [PlainEnv EXCEPT !.active = FALSE],
            [PlainEnv EXCEPT !.defaultView = FALSE],
            [PlainEnv EXCEPT !.selection = TRUE], [PlainEnv EXCEPT !.width = 0]}
TapTargets == {"text", "link"}

TapEvent(prevented, touches, changedTouches, target) ==
    [defaultPrevented |-> prevented, touches |-> touches,
     changedTouches |-> changedTouches, target |-> target]

StartEvents ==
    {TapEvent(FALSE, << t >>, << t >>, g) : t \in Touches, g \in TapTargets}
    \cup {TapEvent(TRUE, << t >>, << t >>, "text") : t \in Touches}
    \cup {TapEvent(FALSE, << t, SecondTouch >>, << SecondTouch >>, "text") : t \in Touches}

MoveEvents ==
    {TapEvent(FALSE, << t >>, << t >>, "text") : t \in Touches}
    \cup {TapEvent(FALSE, << SecondTouch >>, << SecondTouch >>, "text")}

EndEvents ==
    {TapEvent(FALSE, << >>, << t >>, g) : t \in Touches, g \in TapTargets}
    \cup {TapEvent(TRUE, << >>, << t >>, "text") : t \in Touches}
    \cup {TapEvent(FALSE, << SecondTouch >>, << t >>, "text") : t \in Touches}
    \cup {TapEvent(FALSE, << >>, << SecondTouch >>, "text")}

\* the content document gets a touchstart
TouchStart(event, env) ==
    /\ ~closed
    /\ Becomes(handleTapNavigationTouchStart(Cur, event, env, pageDisplayMode, now))
    /\ Record("touchstart", 0, Len(event.touches), "")
    /\ UNCHANGED << file, closed, pageDisplayMode, tasks, now, turns, vault >>

TouchMove(event) ==
    /\ ~closed
    /\ Becomes(handleTapNavigationTouchMove(Cur, event))
    /\ Record("touchmove", IF tapNavigationPendingGestures # NoGesture THEN 1 ELSE 0,
              Len(event.touches), "")
    /\ UNCHANGED << file, closed, pageDisplayMode, tasks, now, turns, vault >>

\* handleTapNavigationTouchEnd: the gesture is forgotten, then void prevPage() or
\* void nextPage() runs up to its await (this.rendition is set when it is called);
\* the record keeps the time the gesture lasted, -1 if none was pending
TouchEnd(event, env) ==
    LET turn == tapNavigationTurn(Cur, event, env, pageDisplayMode, now)
        S1 == [Cur EXCEPT !.tapNavigationPendingGestures = NoGesture]
    IN  /\ ~closed
        /\ \A k \in TurnKinds : turns[k] < MaxTurns
        /\ Becomes(S1)
        /\ turns' = IF turn = "none" THEN turns ELSE [turns EXCEPT ![turn] = @ + 1]
        /\ Record("touchend", event.changedTouches[1].clientX,
                  IF tapNavigationPendingGestures = NoGesture THEN -1
                  ELSE now - tapNavigationPendingGestures.startedAt, turn)
        /\ UNCHANGED << file, closed, pageDisplayMode, tasks, now, vault >>

TouchCancel ==
    /\ ~closed
    /\ tapNavigationPendingGestures # NoGesture
    /\ Becomes([Cur EXCEPT !.tapNavigationPendingGestures = NoGesture])
    /\ Record("touchcancel", 0, 0, "")
    /\ UNCHANGED << file, closed, pageDisplayMode, tasks, now, turns, vault >>

\* time passes: two steps of the first kind are the longest tap, a step of each
\* kind is 1 ms too long
TickSteps == {TAP_NAVIGATION_MAX_DURATION_MS \div 2, TAP_NAVIGATION_MAX_DURATION_MS \div 2 + 1}

Tick(d) ==
    /\ now + d <= MaxClock
    /\ now' = now + d
    /\ Becomes(Cur)
    /\ Record("tick", d, 0, "")
    /\ UNCHANGED << file, closed, pageDisplayMode, tasks, turns, vault >>

\* --------------------------------------------------- footnote popover
\* FootnotePopoverController for the one content document. F is its
\* BoundContentsState; anchors are numbered, 0 = the target lies in no anchor.
LONG_PRESS_MS == 450
SUPPRESS_CLICK_MS == 900
AUTO_HIDE_MS == 2000
TOUCH_MOVE_CANCEL_THRESHOLD_PX == 10

Anchors == {1, 2, 3}
\* extractFootnoteText(anchor, doc) is not null
FootnoteAnchors == {1, 2}

\* window.setTimeout and window.clearTimeout; a timeout is known by its kind and
\* the time it is due, which is its id; clearing a timeout that has fired or
\* was cleared does nothing
TimerKinds == {"longPress", "suppressClick", "autoHide"}

setTimeout(F, kind, due) == [F EXCEPT !.timers = @ \cup {[kind |-> kind, id |-> due]}]

clearTimeout(F, kind, id) == [F EXCEPT !.timers = @ \ {[kind |-> kind, id |-> id]}]

\* a timeout that is due fires: it is armed no longer
timeoutFired(F, tm) == [F EXCEPT !.timers = @ \ {tm}]

clearPendingLongPress(F) ==
    IF F.pendingLongPress = NoPendingLongPress THEN F
    ELSE [clearTimeout(F, "longPress", F.pendingLongPress.timerId)
              EXCEPT !.pendingLongPress = NoPendingLongPress]

\* clearSuppressClick as it would be if it only cancelled the timer
clearSuppressClick_keepsAnchor(F) ==
    [clearTimeout(F, "suppressClick", F.suppressClickTimerId)
         EXCEPT !.suppressClickTimerId = -1]

clearSuppressClick(F) ==
    LET F1 == [F EXCEPT !.suppressClickAnchor = 0]
    IN  IF F1.suppressClickTimerId = -1 THEN F1
        ELSE [clearTimeout(F1, "suppressClick", F1.suppressClickTimerId)
                  EXCEPT !.suppressClickTimerId = -1]

\* startSuppressClick as it would be if it did not clear the suppression that is
\* armed
startSuppressClick_noClear(F, anchor, clock) ==
    [setTimeout(F, "suppressClick", clock + SUPPRESS_CLICK_MS)
         EXCEPT !.suppressClickAnchor = anchor,
                !.suppressClickTimerId = clock + SUPPRESS_CLICK_MS]

startSuppressClick(F, anchor, clock) ==
    [setTimeout(clearSuppressClick(F), "suppressClick", clock + SUPPRESS_CLICK_MS)
         EXCEPT !.suppressClickAnchor = anchor,
                !.suppressClickTimerId = clock + SUPPRESS_CLICK_MS]

clearAutoHide(F) ==
    IF F.autoHideTimerId = -1 THEN F
    ELSE [clearTimeout(F, "autoHide", F.autoHideTimerId) EXCEPT !.autoHideTimerId = -1]

hidePopover(F) == [F EXCEPT !.popover = 0]

scheduleAutoHide(F, clock) ==
    [setTimeout(clearAutoHide(F), "autoHide", clock + AUTO_HIDE_MS)
         EXCEPT !.autoHideTimerId = clock + AUTO_HIDE_MS]

showPopover(F, anchor, hasView) ==
    IF ~hasView THEN F ELSE [clearAutoHide(F) EXCEPT !.popover = anchor]

\* bindContents: nothing for a document that is in states; else a popover
\* element is appended to the document, the listeners are added and the new
\* state object is stored
bindContents(F) ==
    IF F.bound THEN F
    ELSE [Unbound EXCEPT !.bound = TRUE, !.attached = TRUE, !.timers = F.timers,
                         !.popoverEls = F.popoverEls + 1,
                         !.listenerSets = F.listenerSets + 1]

\* unbindContents: the listeners and the popover element of the state are
\* removed, its timeouts cleared, the state deleted
unbindContents(F) ==
    IF ~F.bound THEN F
    ELSE [Unbound EXCEPT
              !.timers = clearAutoHide(clearSuppressClick(clearPendingLongPress(F))).timers,
              !.popoverEls = F.popoverEls - 1,
              !.listenerSets = F.listenerSets - 1]

\* anchor: findAnchorFromTarget(target), 0 = null
handleHoverOver(F, anchor, hasView) ==
    IF anchor = 0 THEN F
    ELSE IF anchor \notin FootnoteAnchors THEN F
    ELSE showPopover([F EXCEPT !.activeAnchor = anchor], anchor, hasView)

\* fromAnchor, relatedAnchor: findAnchorFromTarget of the target and of the
\* related target of the event
handleHoverOut(F, fromAnchor, relatedAnchor) ==
    IF F.activeAnchor = 0 THEN F
    ELSE IF fromAnchor = 0 \/ fromAnchor # F.activeAnchor THEN F
    ELSE IF relatedAnchor = fromAnchor THEN F
    ELSE hidePopover([F EXCEPT !.activeAnchor = 0])

PointerTypes == {"mouse", "touch", "pen"}

isMousePointerEvent(pointerType) == pointerType = "mouse"

\* handlePointerOver as it would be without the filter on the pointer type
handlePointerOver_unfiltered(F, pointerType, anchor, hasView) ==
    handleHoverOver(F, anchor, hasView)

handlePointerOver(F, pointerType, anchor, hasView) ==
    IF ~isMousePointerEvent(pointerType) THEN F ELSE handleHoverOver(F, anchor, hasView)

handlePointerOut(F, pointerType, fromAnchor, relatedAnchor) ==
    IF ~isMousePointerEvent(pointerType) THEN F
    ELSE handleHoverOut(F, fromAnchor, relatedAnchor)

\* a mouse event carries no pointer type: the handler cannot tell a move of the
\* mouse from the compatibility event the browser sends after a touch
handleMouseOver(F, anchor, hasView) == handleHoverOver(F, anchor, hasView)

handleMouseOut(F, fromAnchor, relatedAnchor) == handleHoverOut(F, fromAnchor, relatedAnchor)

\* touch: the first entry of event.touches, NoTouch if there is none
handleTouchStart(F, anchor, touch, clock) ==
    IF anchor = 0 \/ anchor \notin FootnoteAnchors THEN clearPendingLongPress(F)
    ELSE IF touch = NoTouch THEN F
    ELSE [setTimeout(clearPendingLongPress(F), "longPress", clock + LONG_PRESS_MS)
              EXCEPT !.pendingLongPress =
                  [anchor |-> anchor, timerId |-> clock + LONG_PRESS_MS,
                   startX |-> touch.clientX, startY |-> touch.clientY, fired |-> FALSE]]

handleTouchMove(F, touch) ==
    LET pending == F.pendingLongPress
    IN  IF pending = NoPendingLongPress \/ pending.fired THEN F
        ELSE IF touch = NoTouch THEN F
        ELSE IF \/ Abs(touch.clientX - pending.startX) > TOUCH_MOVE_CANCEL_THRESHOLD_PX
                \/ Abs(touch.clientY - pending.startY) > TOUCH_MOVE_CANCEL_THRESHOLD_PX
             THEN clearPendingLongPress(F)
             ELSE F

handleTouchEndOrCancel(F) == clearPendingLongPress(F)

\* fireLongPress as it would be if it only showed the popover
fireLongPress_showOnly(F, hasView, clock) ==
    LET pending == F.pendingLongPress
    IN  IF pending = NoPendingLongPress THEN F
        ELSE showPopover([F EXCEPT !.pendingLongPress.fired = TRUE], pending.anchor, hasView)

\* the long-press timer fires
fireLongPress(F, hasView, clock) ==
    LET pending == F.pendingLongPress
    IN  IF pending = NoPendingLongPress THEN F
        ELSE LET F1 == [F EXCEPT !.pendingLongPress.fired = TRUE]
             IN  IF pending.anchor \notin FootnoteAnchors THEN F1
                 ELSE scheduleAutoHide(
                          startSuppressClick(showPopover(F1, pending.anchor, hasView),
                                             pending.anchor, clock), clock)

\* handleClick calls preventDefault, stopPropagation and stopImmediatePropagation
clickIntercepted(F, anchor) ==
    F.suppressClickAnchor # 0 /\ anchor = F.suppressClickAnchor

handleClick(F, anchor) ==
    IF clickIntercepted(F, anchor) THEN clearSuppressClick(F) ELSE F

\* a step of the controller: the view's fields stay, the step is recorded
FootStep(F, op, a, v) ==
    /\ Becomes([Cur EXCEPT !.states = F])
    /\ Record(op, a, v, "")
    /\ UNCHANGED << file, closed, pageDisplayMode, tasks, now, turns, vault >>

FootTouches == {NoTouch, [identifier |-> 0, clientX |-> 0, clientY |-> 0],
                [identifier |-> 0, clientX |-> 10, clientY |-> 0],
                [identifier |-> 0, clientX |-> 0, clientY |-> 11]}

BindContents == ~states.bound /\ FootStep(bindContents(states), "bind", 0, 0)

UnbindContents == states.bound /\ FootStep(unbindContents(states), "unbind", 0, 0)

\* the content hook of the rendition runs again for a document that is bound
BindContentsAgain == states.bound /\ FootStep(bindContents(states), "bind-again", 0, 0)

\* the rendering engine removes the content document from the display while the
\* session lives (its section is replaced or scrolled away): the view registers
\* no handler for it, and no code of the view or of the controller runs
ContentsRemoved ==
    /\ states.bound /\ states.attached
    /\ FootStep([states EXCEPT !.attached = FALSE], "removed", 0, 0)

FootTouchStart(anchor, touch) ==
    /\ states.bound /\ states.attached
    /\ FootStep(handleTouchStart(states, anchor, touch, now), "foot-touchstart", anchor, 0)

FootTouchMove(touch) ==
    /\ states.bound /\ states.attached
    /\ FootStep(handleTouchMove(states, touch), "foot-touchmove", 0, 0)

\* the record keeps the anchor of the long press that the touch had fired, 0 if
\* it had fired none
FootTouchEnd ==
    /\ states.bound /\ states.attached
    /\ states.pendingLongPress # NoPendingLongPress
    /\ FootStep(handleTouchEndOrCancel(states), "foot-touchend",
                IF states.pendingLongPress.fired THEN states.pendingLongPress.anchor ELSE 0,
                0)

\* the content document gets a pointerover / pointerout event of the given
\* pointer type, or a mouseover / mouseout event that the given kind of input has
\* caused; the record keeps the anchor entered (left) and the kind of input
PointerOver(pointerType, anchor) ==
    /\ states.bound /\ states.attached
    /\ Becomes([Cur EXCEPT !.states = handlePointerOver(states, pointerType, anchor, TRUE)])
    /\ Record("pointerover", anchor, 0, pointerType)
    /\ UNCHANGED << file, closed, pageDisplayMode, tasks, now, turns, vault >>

PointerOut(pointerType, fromAnchor, relatedAnchor) ==
    /\ states.bound /\ states.attached
    /\ Becomes([Cur EXCEPT !.states =
                    handlePointerOut(states, pointerType, fromAnchor, relatedAnchor)])
    /\ Record("pointerout", fromAnchor, relatedAnchor, pointerType)
    /\ UNCHANGED << file, closed, pageDisplayMode, tasks, now, turns, vault >>

MouseOver(origin, anchor) ==
    /\ states.bound /\ states.attached
    /\ Becomes([Cur EXCEPT !.states = handleMouseOver(states, anchor, TRUE)])
    /\ Record("mouseover", anchor, 0, origin)
    /\ UNCHANGED << file, closed, pageDisplayMode, tasks, now, turns, vault >>

MouseOut(origin, fromAnchor, relatedAnchor) ==
    /\ states.bound /\ states.attached
    /\ Becomes([Cur EXCEPT !.states = handleMouseOut(states, fromAnchor, relatedAnchor)])
    /\ Record("mouseout", fromAnchor, relatedAnchor, origin)
    /\ UNCHANGED << file, closed, pageDisplayMode, tasks, now, turns, vault >>

\* the timer set by handleTouchStart is due and has not been cleared; hasView:
\* state.document.defaultView is not null, which is so while the engine displays
\* the document
LongPressTimer(hasView) ==
    /\ hasView = states.attached
    /\ \E tm \in states.timers :
           /\ tm.kind = "longPress" /\ now >= tm.id
           /\ FootStep(fireLongPress(timeoutFired(states, tm), hasView, now), "long-press",
                       states.pendingLongPress.anchor, 0)

\* the timer set by startSuppressClick is due and has not been cleared
SuppressClickTimer ==
    \E tm \in states.timers :
        /\ tm.kind = "suppressClick" /\ now >= tm.id
        /\ FootStep(clearSuppressClick(timeoutFired(states, tm)), "suppress-expired",
                    states.suppressClickAnchor, 0)

\* the timer set by scheduleAutoHide is due and has not been cleared: its
\* callback hides the popover and forgets the id
AutoHideTimer ==
    \E tm \in states.timers :
        /\ tm.kind = "autoHide" /\ now >= tm.id
        /\ FootStep([hidePopover(timeoutFired(states, tm)) EXCEPT !.autoHideTimerId = -1],
                    "auto-hide", 0, 0)

\* a click on the content document; the record keeps the anchor that was armed
Click(anchor) ==
    /\ states.bound /\ states.attached
    /\ FootStep(handleClick(states, anchor), "click", anchor,
                IF clickIntercepted(states, anchor) THEN states.suppressClickAnchor
                ELSE 0)

FootTick ==
    /\ now + LONG_PRESS_MS <= MaxFootClock
    /\ now' = now + LONG_PRESS_MS
    /\ Becomes(Cur)
    /\ Record("tick", LONG_PRESS_MS, 0, "")
    /\ UNCHANGED << file, closed, pageDisplayMode, tasks, turns, vault >>

\* ------------------------------------------------------ appearance theme
MaxFrames == 2       \* no more animation-frame callbacks are requested beyond this

\* the user picks a theme in the settings: the setting is assigned and the open
\* views are told
SetAppearanceTheme(value) ==
    /\ Becomes(applyAppearanceThemeToOpenViews(
                   [Cur EXCEPT !.appearance.appearanceTheme = value], closed, value))
    /\ DidMode("set-theme", 0, 0, value)
    /\ UNCHANGED << file, closed, pageDisplayMode, tasks >>

\* the host switches between its light and its dark theme; no code of the plugin
\* runs until the events that follow
ToggleThemeDark ==
    /\ Becomes([Cur EXCEPT !.appearance.themeDark = ~@])
    /\ Did("host-theme", 0, 0)
    /\ UNCHANGED << file, closed, pageDisplayMode, tasks >>

\* a "css-change" event of the workspace or a change of prefers-color-scheme; the
\* record tells whether a frame callback was requested
CssChange ==
    /\ appearance.frames < MaxFrames
    /\ Becomes(queueAutoAppearanceThemeSync(Cur))
    /\ Did("css-change", 0,
           queueAutoAppearanceThemeSync(Cur).appearance.frames - appearance.frames)
    /\ UNCHANGED << file, closed, pageDisplayMode, tasks >>

\* the next animation frame: a pending callback runs; the record tells whether
\* it has called applyAppearanceThemeToOpenViews
Frame ==
    /\ appearance.frames > 0
    /\ Becomes(autoAppearanceThemeSyncFrame(Cur, closed))
    /\ Did("frame", 0, IF appearance.appearanceTheme = "auto" THEN 1 ELSE 0)
    /\ UNCHANGED << file, closed, pageDisplayMode, tasks >>

\* ------------------------------------------------------ vault events
\* the plugin's handlers of the vault's "delete" and "rename" events; a path
\* stands for the file at it
EPUB_EXTENSION == "epub"
OtherPaths == {"n"}
Paths == Files \cup OtherPaths

\* TFile.extension, in lower case
extension(path) == IF path \in Files THEN "epub" ELSE "md"

isEpubFile(path) == extension(path) = EPUB_EXTENSION

\* settings.lastLocations[path], NoLoc if path is not a key
EntryOf(locations, path) ==
    IF path \in DOMAIN locations THEN locations[path] ELSE NoLoc

\* handleFileRename as it would be if it left the old key in place
handleFileRename_keepsOld(locations, path, oldPath) ==
    LET oldLocation == EntryOf(locations, oldPath)
    IN  IF oldLocation = NoLoc THEN locations
        ELSE IF isEpubFile(path) THEN [locations EXCEPT ![path] = oldLocation]
        ELSE locations

handleFileDelete(locations, path) ==
    IF ~isEpubFile(path) THEN locations
    ELSE IF EntryOf(locations, path) = NoLoc THEN locations
    ELSE [locations EXCEPT ![path] = NoLoc]

handleFileRename(locations, path, oldPath) ==
    LET oldLocation == EntryOf(locations, oldPath)
        deleted == [locations EXCEPT ![oldPath] = NoLoc]
    IN  IF oldLocation = NoLoc THEN locations
        ELSE IF isEpubFile(path) THEN [deleted EXCEPT ![path] = oldLocation]
        ELSE deleted

\* a step of the plugin outside the view; each of its handlers calls
\* saveSettings() exactly when it has changed the map
PluginStep(locations, files, op, a, v) ==
    /\ Becomes([Cur EXCEPT !.lastLocations = locations,
                           !.saves = IF locations = lastLocations THEN 0 ELSE 1])
    /\ vault' = files
    /\ Record(op, a, v, "")
    /\ UNCHANGED << file, closed, pageDisplayMode, tasks, now, turns >>

\* a file appears in the vault
VaultCreate(path) ==
    /\ path \notin vault
    /\ PluginStep(lastLocations, vault \cup {path}, "create", 0, 0)

\* the vault deletes the file at path
VaultDelete(path) ==
    /\ path \in vault
    /\ PluginStep(handleFileDelete(lastLocations, path), vault \ {path}, "delete", 0,
                  EntryOf(lastLocations, path))

\* the vault renames the file at oldPath to path
VaultRename(path, oldPath) ==
    /\ oldPath \in vault /\ path \notin vault
    /\ PluginStep(handleFileRename(lastLocations, path, oldPath),
                  (vault \ {oldPath}) \cup {path}, "rename",
                  IF isEpubFile(path) THEN 1 ELSE 0, EntryOf(lastLocations, oldPath))

\* a view that shows the EPUB file at path reports a relocation to the plugin
SaveLocation(path, cfi) ==
    /\ path \in vault /\ isEpubFile(path)
    /\ PluginStep(setLastLocation(Cur, path, cfi).lastLocations, vault, "save", 0, cfi)

\* The view's life cycle under one stored display mode: files are loaded,
\* unloaded and the view closed while earlier opens still await I/O.
Next ==
    \/ \E f \in Files, reopen \in BOOLEAN : OnLoadFile(f, reopen)
    \/ OnUnloadFile
    \/ OnClose
    \/ \E t \in TaskIds, ok \in BOOLEAN : OpenReadDone(t, ok)
    \/ \E t \in TaskIds, ok \in BOOLEAN : OpenParseDone(t, ok)
    \/ \E t \in TaskIds, ok \in BOOLEAN : OpenDisplaySavedDone(t, ok)
    \/ \E t \in TaskIds, ok \in BOOLEAN : OpenDisplayStartDone(t, ok)
    \/ \E r \in Handles, c \in Cfis : Relocated(r, c)
    \/ \E b \in Handles, ok \in BOOLEAN : TocLoaded(b, ok)
    \/ \E l \in Listeners : Subscribe(l)
    \/ \E l \in Listeners : Unsubscribe(l)

Spec == Init /\ [][Next]_vars

\* Display-mode changes of one open document.
NextMode ==
    \/ OnLoadFile("a", TRUE)
    \/ OnUnloadFile
    \/ \E t \in TaskIds, ok \in BOOLEAN : OpenReadDone(t, ok)
    \/ \E t \in TaskIds, ok \in BOOLEAN : OpenParseDone(t, ok)
    \/ \E t \in TaskIds, ok \in BOOLEAN : OpenDisplaySavedDone(t, ok)
    \/ \E t \in TaskIds, ok \in BOOLEAN : OpenDisplayStartDone(t, ok)
    \/ \E m \in {"spread-auto", "spread-always", "scroll-continuous"} :
           UpdatePageDisplayMode(m)
    \/ \E t \in TaskIds, ok \in BOOLEAN : RedisplayDone(t, ok)
    \/ \E r \in Handles, c \in Cfis : Relocated(r, c)
    \/ \E b \in Handles : TocLoaded(b, TRUE)

SpecMode == Init /\ [][NextMode]_vars

\* Prefetch in continuous-scroll mode, the stored mode when the plugin loads.
InitContinuous ==
    /\ Init!1 /\ Init!2 /\ Init!3 /\ Init!4 /\ Init!5 /\ Init!6 /\ Init!7 /\ Init!8
    /\ Init!9 /\ Init!10 /\ Init!11 /\ Init!12 /\ Init!13 /\ Init!14 /\ Init!15
    /\ pageDisplayMode = "scroll-continuous"
    /\ Init!17 /\ Init!18 /\ Init!19 /\ Init!20 /\ Init!21 /\ Init!22 /\ Init!23
    /\ Init!24 /\ Init!25 /\ Init!26 /\ Init!27

NextPrefetch ==
    \/ OnLoadFile("a", FALSE)
    \/ OnUnloadFile
    \/ \E t \in TaskIds, ok \in BOOLEAN : OpenReadDone(t, ok)
    \/ \E t \in TaskIds, ok \in BOOLEAN : OpenParseDone(t, ok)
    \/ \E t \in TaskIds, ok \in BOOLEAN : OpenDisplayStartDone(t, ok)
    \/ \E r \in Handles, c \in Cfis : Relocated(r, c)
    \/ \E b \in Handles, ok \in BOOLEAN : TocLoaded(b, ok)
    \/ \E p \in prefetchPending, ok \in BOOLEAN : PrefetchDone(p, ok)

SpecPrefetch == InitContinuous /\ [][NextPrefetch]_vars

\* Taps on the content document of one open document.
NextTap ==
    \/ OnLoadFile("a", FALSE)
    \/ \E t \in TaskIds : OpenReadDone(t, TRUE)
    \/ \E t \in TaskIds : OpenParseDone(t, TRUE)
    \/ \E t \in TaskIds : OpenDisplayStartDone(t, TRUE)
    \/ \E e \in StartEvents, env \in TapEnvs : TouchStart(e, env)
    \/ \E e \in MoveEvents : TouchMove(e)
    \/ \E e \in EndEvents, env \in TapEnvs : TouchEnd(e, env)
    \/ TouchCancel
    \/ \E d \in TickSteps : Tick(d)
    \/ \E k \in {"prev", "next"} : TurnDone(k, TRUE)

SpecTap == Init /\ [][NextTap]_vars

\* The footnote popover controller of one content document: touches, clicks
\* and its three timers, with the clock moving in steps of LONG_PRESS_MS.
NextFoot ==
    \/ BindContents
    \/ UnbindContents
    \/ \E a \in {0} \cup Anchors, t \in FootTouches : FootTouchStart(a, t)
    \/ \E t \in FootTouches : FootTouchMove(t)
    \/ FootTouchEnd
    \/ \E v \in BOOLEAN : LongPressTimer(v)
    \/ SuppressClickTimer
    \/ AutoHideTimer
    \/ \E a \in {0} \cup Anchors : Click(a)
    \/ FootTick

SpecFoot == Init /\ [][NextFoot]_vars

\* Navigation through the toolbar and commands: one document is opened and
\* unloaded, pages are turned and sections jumped to, and the rendering engine
\* settles each request either way.
JumpTargets == {EmptyText, SectionHref(0), SectionHref(1)}

NextNav ==
    \/ OnLoadFile("a", FALSE)
    \/ OnUnloadFile
    \/ \E t \in TaskIds : OpenReadDone(t, TRUE)
    \/ \E t \in TaskIds : OpenParseDone(t, TRUE)
    \/ \E t \in TaskIds : OpenDisplayStartDone(t, TRUE)
    \/ \E k \in {"prev", "next"} : PageCommand(k)
    \/ \E h \in JumpTargets : JumpToSection(h)
    \/ \E k \in TurnKinds, ok \in BOOLEAN : TurnDone(k, ok)
    \/ \E r \in Handles, c \in Cfis : Relocated(r, c)

SpecNav == Init /\ [][NextNav]_vars

\* Teardown with failing engine calls: a document is opened, its TOC loads, it
\* relocates, its footnote controller binds the content document, and the file
\* is unloaded while any subset of the calls of cleanupBook throws.
NextTeardown ==
    \/ OnLoadFile("a", FALSE)
    \/ \E fails \in SUBSET CleanupSteps : OnUnloadFileWith(fails)
    \/ \E t \in TaskIds : OpenReadDone(t, TRUE)
    \/ \E t \in TaskIds : OpenParseDone(t, TRUE)
    \/ \E t \in TaskIds : OpenDisplayStartDone(t, TRUE)
    \/ \E r \in Handles, c \in Cfis : Relocated(r, c)
    \/ \E b \in Handles : TocLoaded(b, TRUE)
    \/ \E l \in Listeners : Subscribe(l)
    \/ rendition # 0 /\ BindContents

SpecTeardown == Init /\ [][NextTeardown]_vars

\* The plugin's map of last locations under the events of the vault: files are
\* created, deleted and renamed, and views report the locations of EPUB files.
NextVault ==
    \/ \E p \in Paths : VaultCreate(p)
    \/ \E p \in Paths : VaultDelete(p)
    \/ \E p \in Paths, q \in Paths : VaultRename(q, p)
    \/ \E p \in Paths, c \in Cfis : SaveLocation(p, c)

SpecVault == Init /\ [][NextVault]_vars

\* Progress of opens and display-mode changes.  withTimeout races each engine
\* promise against a timer, so the rejection of a timed wait is the step that a
\* timer guarantees; vault.readBinary is awaited without timer.
Timeout(t) ==
    \/ OpenParseDone(t, FALSE)
    \/ OpenDisplaySavedDone(t, FALSE)
    \/ OpenDisplayStartDone(t, FALSE)
    \/ RedisplayDone(t, FALSE)

TocTimeout(b) == TocLoaded(b, FALSE)

NextLive ==
    \/ \E reopen \in BOOLEAN : OnLoadFile("a", reopen)
    \/ \E t \in TaskIds, ok \in BOOLEAN : OpenReadDone(t, ok)
    \/ \E t \in TaskIds : OpenParseDone(t, TRUE)
    \/ \E t \in TaskIds : OpenDisplaySavedDone(t, TRUE)
    \/ \E t \in TaskIds : OpenDisplayStartDone(t, TRUE)
    \/ \E md \in {"spread-always", "scroll-continuous"} : UpdatePageDisplayMode(md)
    \/ \E t \in TaskIds : RedisplayDone(t, TRUE)
    \/ \E r \in Handles, c \in Cfis : Relocated(r, c)
    \/ \E b \in Handles : TocLoaded(b, TRUE)
    \/ \E t \in TaskIds : Timeout(t)
    \/ \E b \in Handles : TocTimeout(b)

\* timers fire: a timed wait that stays pending is ended by its timeout
SpecLive ==
    /\ Init /\ [][NextLive]_vars
    /\ \A t \in TaskIds : WF_vars(Timeout(t))
    /\ \A b \in Handles : WF_vars(TocTimeout(b))

\* The display-mode setting is changed in the settings tab while a document is
\* open and relocates.
NextSetting ==
    \/ OnLoadFile("a", FALSE)
    \/ \E t \in TaskIds : OpenReadDone(t, TRUE)
    \/ \E t \in TaskIds : OpenParseDone(t, TRUE)
    \/ \E t \in TaskIds : OpenDisplaySavedDone(t, TRUE)
    \/ \E t \in TaskIds : OpenDisplayStartDone(t, TRUE)
    \/ \E value \in {"spread-always", "scroll-continuous"} :
           OnChangePageDisplayMode(value)
    \/ ApplyPageDisplayModeToOpenViews
    \/ \E t \in TaskIds : RedisplayDone(t, TRUE)
    \/ \E r \in Handles : Relocated(r, 1)

SpecSetting == Init /\ [][NextSetting]_vars

\* Prefetch with loads that fail: the failures of the loads are kept on record.
NextRetry ==
    \/ OnLoadFile("a", FALSE)
    \/ OnUnloadFile
    \/ \E t \in TaskIds : OpenReadDone(t, TRUE)
    \/ \E t \in TaskIds : OpenParseDone(t, TRUE)
    \/ \E t \in TaskIds : OpenDisplayStartDone(t, TRUE)
    \/ \E r \in Handles, c \in Cfis : Relocated(r, c)
    \/ \E p \in prefetchPending : PrefetchDone(p, TRUE)
    \/ \E p \in prefetchPending : PrefetchRejected(p)

SpecRetry == InitContinuous /\ [][NextRetry]_vars

\* Taps on the content document while the display-mode setting changes: the
\* stored mode is continuous-scroll when the plugin loads.  The taps are single
\* touches on plain text that do not move, in a view that has or has not the focus.
PlainTouches == {t \in Touches : t.clientY = 0}
PlainStartEvents == {TapEvent(FALSE, << t >>, << t >>, "text") : t \in PlainTouches}
PlainEndEvents == {TapEvent(FALSE, << >>, << t >>, "text") : t \in PlainTouches}
FocusEnvs == {PlainEnv, [PlainEnv EXCEPT !.active = FALSE]}

NextTapMode ==
    \/ OnLoadFile("a", FALSE)
    \/ \E t \in TaskIds : OpenReadDone(t, TRUE)
    \/ \E t \in TaskIds : OpenParseDone(t, TRUE)
    \/ \E t \in TaskIds : OpenDisplayStartDone(t, TRUE)
    \/ \E value \in {"spread-auto", "scroll-continuous"} : OnChangePageDisplayMode(value)
    \/ ApplyPageDisplayModeToOpenViews
    \/ \E e \in PlainStartEvents, env \in FocusEnvs : TouchStart(e, env)
    \/ \E e \in PlainEndEvents, env \in FocusEnvs : TouchEnd(e, env)
    \/ \E d \in TickSteps : Tick(d)
    \/ \E k \in {"prev", "next"} : TurnDone(k, TRUE)

SpecTapMode == InitContinuous /\ [][NextTapMode]_vars

\* A content document that the engine may remove during the session: a document
\* is opened, its content document is bound, touched on a footnote anchor and on
\* the page, removed by the engine or unbound by the teardown, and the timers of
\* the footnote controller run.
OneTouch == [identifier |-> 0, clientX |-> 20, clientY |-> 0]

NextUnbind ==
    \/ OnLoadFile("a", FALSE)
    \/ OnUnloadFile
    \/ \E t \in TaskIds : OpenReadDone(t, TRUE)
    \/ \E t \in TaskIds : OpenParseDone(t, TRUE)
    \/ \E t \in TaskIds : OpenDisplayStartDone(t, TRUE)
    \/ rendition # 0 /\ BindContents
    \/ ContentsRemoved
    \/ FootTouchStart(1, OneTouch)
    \/ FootTouchEnd
    \/ \E v \in BOOLEAN : LongPressTimer(v)
    \/ SuppressClickTimer
    \/ AutoHideTimer
    \/ Click(1)
    \/ states.attached /\ TouchStart(TapEvent(FALSE, << OneTouch >>, << OneTouch >>, "text"), PlainEnv)
    \/ states.attached /\ TouchCancel
    \/ FootTick

SpecUnbind == Init /\ [][NextUnbind]_vars

\* Long presses on footnote anchors with touch input only: the one click the
\* content document gets is the click the browser synthesizes after a touch has
\* been released.
SyntheticClick(anchor) == last.op = "foot-touchend" /\ Click(anchor)

NextHold ==
    \/ BindContents
    \/ \E a \in Anchors : FootTouchStart(a, OneTouch)
    \/ FootTouchEnd
    \/ LongPressTimer(TRUE)
    \/ SuppressClickTimer
    \/ AutoHideTimer
    \/ \E a \in Anchors : SyntheticClick(a)
    \/ FootTick

SpecHold == Init /\ [][NextHold]_vars

\* Hover over the anchors of a bound content document: pointer events of every
\* pointer type and the mouse events that come with them.
NextHover ==
    \/ BindContents
    \/ UnbindContents
    \/ \E p \in PointerTypes, a \in {0} \cup Anchors : PointerOver(p, a)
    \/ \E p \in PointerTypes, a, b \in {0} \cup Anchors : PointerOut(p, a, b)
    \/ \E p \in PointerTypes, a \in {0} \cup Anchors : MouseOver(p, a)
    \/ \E p \in PointerTypes, a, b \in {0} \cup Anchors : MouseOut(p, a, b)

SpecHover == Init /\ [][NextHover]_vars

\* The appearance theme of one open document: the setting changes, the host
\* changes its theme, change events arrive and animation frames run.
NextTheme ==
    \/ OnLoadFile("a", FALSE)
    \/ OnUnloadFile
    \/ \E t \in TaskIds : OpenReadDone(t, TRUE)
    \/ \E t \in TaskIds : OpenParseDone(t, TRUE)
    \/ \E t \in TaskIds : OpenDisplayStartDone(t, TRUE)
    \/ \E value \in Themes : SetAppearanceTheme(value)
    \/ ToggleThemeDark
    \/ CssChange
    \/ Frame

SpecTheme == Init /\ [][NextTheme]_vars

\* The toolbar of the view: documents are opened and unloaded, their TOC loads or
\* fails to, the sessions relocate, the user jumps by the TOC dropdown and a
\* listener subscribes.
MaxTocItems == 2     \* the longest TOC of a document, flattened

NextToc ==
    \/ \E f \in Files : OnLoadFile(f, FALSE)
    \/ OnUnloadFile
    \/ \E t \in TaskIds : OpenReadDone(t, TRUE)
    \/ \E t \in TaskIds, ok \in BOOLEAN : OpenParseDone(t, ok)
    \/ \E t \in TaskIds : OpenDisplayStartDone(t, TRUE)
    \/ \E r \in Handles, c \in Cfis : Relocated(r, c)
    \/ \E b \in Handles, ok \in BOOLEAN : TocLoaded(b, ok)
    \/ \E i \in 0..MaxTocItems : JumpToSelectedSection(i)
    \/ TurnDone("jump", TRUE)
    \/ \E l \in Listeners : Subscribe(l)

SpecToc == Init /\ [][NextToc]_vars

\* One touch event of a displayed content document reaches the listeners of the
\* view (registerTapNavigationHandlers) and those of the footnote controller
\* (bindContents), which are on the same document. anchor: the <a> element the
\* target of the event is in, 0 if it is in none; an event in an <a> element has
\* a target that tap navigation ignores.
DocTouchStart(event, anchor, env) ==
    LET S1 == handleTapNavigationTouchStart(Cur, event, env, pageDisplayMode, now)
        touch == IF Len(event.touches) > 0 THEN event.touches[1] ELSE NoTouch
    IN  /\ ~closed
        /\ states.bound /\ states.attached
        /\ anchor # 0 => event.target = "link"
        /\ Becomes([S1 EXCEPT !.states = handleTouchStart(S1.states, anchor, touch, now)])
        /\ Record("doc-touchstart", anchor, Len(event.touches), event.target)
        /\ UNCHANGED << file, closed, pageDisplayMode, tasks, now, turns, vault >>

DocTouchMove(event) ==
    LET S1 == handleTapNavigationTouchMove(Cur, event)
        touch == IF Len(event.touches) > 0 THEN event.touches[1] ELSE NoTouch
    IN  /\ ~closed
        /\ states.bound /\ states.attached
        /\ Becomes([S1 EXCEPT !.states = handleTouchMove(S1.states, touch)])
        /\ Record("doc-touchmove", 0, Len(event.touches), "")
        /\ UNCHANGED << file, closed, pageDisplayMode, tasks, now, turns, vault >>

\* the record keeps the anchor of the long press that the touch had fired, 0 if
\* it had fired none, the time the tap gesture lasted, -1 if none was pending,
\* and the page turn that the event starts
DocTouchEnd(event, env) ==
    LET turn == tapNavigationTurn(Cur, event, env, pageDisplayMode, now)
        S1 == [Cur EXCEPT !.tapNavigationPendingGestures = NoGesture]
        pending == states.pendingLongPress
    IN  /\ ~closed
        /\ states.bound /\ states.attached
        /\ \A k \in TurnKinds : turns[k] < MaxTurns
        /\ Becomes([S1 EXCEPT !.states = handleTouchEndOrCancel(S1.states)])
        /\ turns' = IF turn = "none" THEN turns ELSE [turns EXCEPT ![turn] = @ + 1]
        /\ Record("doc-touchend",
                  IF pending # NoPendingLongPress /\ pending.fired THEN pending.anchor ELSE 0,
                  IF tapNavigationPendingGestures = NoGesture THEN -1
                  ELSE now - tapNavigationPendingGestures.startedAt, turn)
        /\ UNCHANGED << file, closed, pageDisplayMode, tasks, now, vault >>

DocTouchCancel ==
    /\ ~closed
    /\ states.bound /\ states.attached
    /\ Becomes([Cur EXCEPT !.tapNavigationPendingGestures = NoGesture,
                           !.states = handleTouchEndOrCancel(states)])
    /\ Record("doc-touchcancel", 0, 0, "")
    /\ UNCHANGED << file, closed, pageDisplayMode, tasks, now, turns, vault >>

\* touches in the zone of the previous and of the next page, and the events made
\* of them: one finger down, a second finger down on a link, a move, a lift
TouchPoints == {t \in PlainTouches : t.clientX \in {8, 30}}
DocStartEvents ==
    {TapEvent(FALSE, << t >>, << t >>, g) : t \in TouchPoints, g \in TapTargets}
    \cup {TapEvent(FALSE, << t, SecondTouch >>, << SecondTouch >>, "link") : t \in TouchPoints}
DocMoveEvents == {TapEvent(FALSE, << t >>, << t >>, "text") : t \in TouchPoints}
DocEndEvents ==
    {TapEvent(FALSE, << >>, << t >>, g) : t \in TouchPoints, g \in TapTargets}
    \cup {TapEvent(FALSE, << SecondTouch >>, << t >>, "text") : t \in TouchPoints}

\* A document is opened and displayed; the touch events of its content document
\* reach tap navigation and the footnote controller, the timers of the
\* controller fire, the page turns settle, time passes.
NextTouch ==
    \/ OnLoadFile("a", FALSE)
    \/ \E t \in TaskIds : OpenReadDone(t, TRUE)
    \/ \E t \in TaskIds : OpenParseDone(t, TRUE)
    \/ \E t \in TaskIds : OpenDisplayStartDone(t, TRUE)
    \/ rendition # 0 /\ BindContents
    \/ \E e \in DocStartEvents, a \in {0, 1, 3} : DocTouchStart(e, a, PlainEnv)
    \/ \E e \in DocMoveEvents : DocTouchMove(e)
    \/ \E e \in DocEndEvents : DocTouchEnd(e, PlainEnv)
    \/ DocTouchCancel
    \/ LongPressTimer(TRUE)
    \/ SuppressClickTimer
    \/ AutoHideTimer
    \/ Tick(TAP_NAVIGATION_MAX_DURATION_MS \div 2)
    \/ FootTick
    \/ \E k \in {"prev", "next"} : TurnDone(k, TRUE)

SpecTouch == Init /\ [][NextTouch]_vars

\* The footnote controller of one content document, with the content hook
\* running again for the document while it is bound.
NextBind ==
    \/ BindContents
    \/ BindContentsAgain
    \/ UnbindContents
    \/ \E a \in {0} \cup Anchors, t \in FootTouches : FootTouchStart(a, t)
    \/ \E t \in FootTouches : FootTouchMove(t)
    \/ FootTouchEnd
    \/ \E v \in BOOLEAN : LongPressTimer(v)
    \/ SuppressClickTimer
    \/ AutoHideTimer
    \/ \E a \in {0} \cup Anchors : Click(a)
    \/ \E a \in {0} \cup Anchors : MouseOver("mouse", a)
    \/ \E a \in Anchors, b \in {0} \cup Anchors : MouseOut("mouse", a, b)
    \/ FootTick

SpecBind == Init /\ [][NextBind]_vars

\* ================================================================ claims
TeardownOps == {"open", "unload", "close", "mode-reopen"}
ModeOps == {"mode-none", "mode-nofile", "mode-reopen", "mode-patch"}

\* the part of the state that a session shows
SessionView(S) ==
    [book |-> S.book, rendition |-> S.rendition, tocItems |-> S.toolbarTocItems,
     chapterTitle |-> S.toolbarChapterTitle, selectedHrefKey |-> S.toolbarSelectedHrefKey,
     prefetched |-> S.prefetchedSectionIndexes, inFlight |-> S.prefetchInFlightIndexes]

NoSessionView ==
    [book |-> 0, rendition |-> 0, tocItems |-> << >>, chapterTitle |-> EmptyText,
     selectedHrefKey |-> Null, prefetched |-> {}, inFlight |-> {}]

\* C1: in every reachable state at most one Document Handle and at most one
\* Render Surface are live, also when opens overlap.
C1_AtMostOneSessionLive ==
    Cardinality(liveBooks) <= 1 /\ Cardinality(liveRends) <= 1

\* C2: when an open has failed, the error state is shown and no Document Handle
\* and no Render Surface remain; canNavigate is false.
C2_FailedOpenLeavesNoSession ==
    last.op = "open-failed" =>
        /\ content = "error"
        /\ book = 0 /\ liveBooks = {}
        /\ rendition = 0 /\ liveRends = {}
        /\ ~getToolbarState(Cur).canNavigate

AllTasksIdle == \A t \in TaskIds : tasks[t].pc = "idle"

\* C5: after an open of document D has succeeded and its session relocates, the
\* location persisted under D's key is the location of that relocation.
C5_RelocationPersisted ==
    (/\ last.op = "relocated" /\ last.arg = rendition
     /\ book # 0 /\ rends[rendition].book = book
     /\ AllTasksIdle) =>
        lastLocations[books[book]] = last.val

\* the call is updatePageDisplayMode(m) on a live surface of the other flow family
CrossFamilyCall(m) ==
    /\ rendition # 0
    /\ isContinuousFlow(rends[rendition].flow) # isContinuousFlow(getRenditionConfig(m).flow)

SameFamilyCall(m) ==
    /\ rendition # 0
    /\ isContinuousFlow(rends[rendition].flow) = isContinuousFlow(getRenditionConfig(m).flow)

\* C6: a display-mode change across flow families tears the session down and
\* opens the file again in the new mode, with the location the session was at as
\* preferredLocation.
C6_CrossFamilyReopens ==
    [][(last'.op \in ModeOps /\ CrossFamilyCall(last'.mode)) =>
          /\ rendition' = 0 /\ book' = 0
          /\ prefetchSessionId' = prefetchSessionId + 1
          /\ \E t \in TaskIds :
                /\ tasks[t].pc = "idle"
                /\ tasks'[t] = [pc |-> "read", file |-> file, mode |-> last'.mode,
                                pref |-> currentCfi(Cur),
                                via |-> "updatePageDisplayMode",
                                epoch |-> prefetchSessionId']]_vars

C8_StalePrefetchIsNoOp ==
    [][\A p \in prefetchPending :
          (/\ last'.op = "prefetch" /\ last'.arg = p.index /\ last'.val = p.epoch
           /\ p \notin prefetchPending'
           /\ p.epoch # prefetchSessionId) =>
              /\ prefetchedSectionIndexes' = prefetchedSectionIndexes
              /\ prefetchInFlightIndexes' = prefetchInFlightIndexes]_vars

\* C8 witness: a stale load settled while the new session had its own load of the
\* same section in flight
C8_Witness ==
    /\ last.op = "prefetch" /\ last.val # prefetchSessionId
    /\ last.arg \in prefetchInFlightIndexes
    /\ [index |-> last.arg, epoch |-> prefetchSessionId] \in prefetchPending

\* C9: the result of a TOC load whose book is no longer the engine's book changes
\* no toolbar state and notifies no listener.
C9_StaleTocDiscarded ==
    [][(last'.op = "toc" /\ last'.arg # book) =>
          /\ toolbarTocItems' = toolbarTocItems
          /\ tocLabelByHref' = tocLabelByHref
          /\ toolbarChapterTitle' = toolbarChapterTitle
          /\ toolbarSelectedHrefKey' = toolbarSelectedHrefKey
          /\ received' = received]_vars

\* C9 witness: the TOC of a replaced session arrived while the next session was
\* open and a listener was subscribed
C9_Witness ==
    /\ last.op = "toc" /\ last.val = 1
    /\ book # 0 /\ last.arg # book
    /\ rendition # 0
    /\ toolbarStateListeners # {}

\* the longest TOC key that is a prefix of href, Null when there is none
LongestPrefixKey(items, href) ==
    LET keys == {items[i].hrefKey : i \in 1..Len(items)}
        pre == {k \in keys : IsPrefix(k, href)}
    IN  IF pre = {} THEN Null
        ELSE CHOOSE k \in pre : \A j \in pre : Len(j) <= Len(k)

\* C10: after a relocation to an href that matches no TOC key exactly, the selected
\* key is the longest TOC key that is a prefix of the normalized href.
C10_LongestPrefixSelected ==
    LET href == normalizeHref(RelocatedPayload(last.val).href)
    IN  (/\ last.op = "relocated"
         /\ last.arg \in liveRends /\ rends[last.arg].handler
         /\ ~hasMatchingTocItem(Cur, href)
         /\ LongestPrefixKey(toolbarTocItems, href) # Null) =>
            toolbarSelectedHrefKey = LongestPrefixKey(toolbarTocItems, href)

\* a tap the claim calls valid is about to end with event e in environment env:
\* one touch went down on a non-interactive target of the focused view in a
\* paginated mode, stayed within the movement threshold and is lifted, as the
\* only touch, within the duration threshold, with no text selected
ValidTap(e, env) ==
    LET pending == tapNavigationPendingGestures
    IN  /\ pending # NoGesture /\ rendition # 0
        /\ ~e.defaultPrevented /\ env.active /\ env.defaultView
        /\ pageDisplayMode # "scroll-continuous"
        /\ e.touches = << >> /\ Len(e.changedTouches) = 1
        /\ e.changedTouches[1].identifier = pending.touchIdentifier
        /\ now - pending.startedAt <= TAP_NAVIGATION_MAX_DURATION_MS
        /\ Abs(e.changedTouches[1].clientX - pending.startX) <= TAP_NAVIGATION_MAX_MOVE_PX
        /\ Abs(e.changedTouches[1].clientY - pending.startY) <= TAP_NAVIGATION_MAX_MOVE_PX
        /\ ~env.selection /\ env.width > 0
        /\ pending.target = "text" /\ e.target = "text"

\* C11: a valid tap that ends at horizontal ratio r of the viewport width fires
\* exactly one previous-page when r <= 0.4, exactly one next-page when r >= 0.6
\* and no page turn when 0.4 < r < 0.6.
C11_TapZones ==
    [][last'.op = "touchend" =>
         \A e \in EndEvents, env \in TapEnvs :
             (ValidTap(e, env) /\ TouchEnd(e, env)) =>
                 LET x == e.changedTouches[1].clientX
                     fired == [k \in TurnKinds |-> turns'[k] - turns[k]]
                 IN  /\ 10 * x <= 4 * env.width =>
                           fired = [NoTurns EXCEPT !["prev"] = 1]
                     /\ 10 * x >= 6 * env.width =>
                           fired = [NoTurns EXCEPT !["next"] = 1]
                     /\ (10 * x > 4 * env.width /\ 10 * x < 6 * env.width) =>
                           fired = NoTurns]_vars

\* C11 witness: a tap of the longest valid duration ended on the border of the
\* left zone and previous-page was called
C11_Witness ==
    /\ last.op = "touchend" /\ last.mode = "prev"
    /\ last.arg = 20 /\ last.val = TAP_NAVIGATION_MAX_DURATION_MS
    /\ turns["prev"] = 1 /\ turns["next"] = 0

\* C12: while click suppression is armed on anchor A, a click on A has its
\* default action and propagation cancelled and disarms the suppression, so that
\* the next click on A is not intercepted; once the suppression window has
\* expired (its timer has run) a click on A is not intercepted; a click on any
\* other anchor is never intercepted and leaves the suppression as it was.
C12_ClickSuppression ==
    [][\A a \in {0} \cup Anchors :
          Click(a) =>
              /\ (states.suppressClickAnchor # 0 /\ a = states.suppressClickAnchor) =>
                     /\ last'.val = a
                     /\ states'.suppressClickAnchor = 0
                     /\ states'.suppressClickTimerId = -1
              /\ (last.op = "suppress-expired" \/ (last.op = "click" /\ last.val # 0)) =>
                     last'.val = 0
              /\ a # states.suppressClickAnchor =>
                     last'.val = 0 /\ states' = states]_vars

\* C12 witness: a click on the armed anchor was intercepted within the window
C12_Witness ==
    /\ last.op = "click" /\ last.val # 0 /\ last.arg = last.val
    /\ states.suppressClickAnchor = 0

\* C13: when the display of the preferred location fails or times out the open
\* goes on to the default start without error state or notice, and when that
\* display succeeds the open completes with the session live at the default
\* start, again without error state or notice; an open without preferred
\* location displays the default start. (The session the open works on is still
\* attached: C1 and C2 cover the opens that a teardown has overtaken.)
C13_FallbackToStart ==
    [][\A t \in TaskIds :
          /\ (OpenDisplaySavedDone(t, FALSE) /\ rendition # 0) =>
                 /\ notice' = "" /\ content' = content
                 /\ rendition' = rendition /\ book' = book
                 /\ rends'[rendition'].display = Start
                 /\ tasks'[t] = [tasks[t] EXCEPT !.pc = "display-start"]
          /\ (OpenDisplayStartDone(t, TRUE) /\ tasks[t].pref # NoLoc /\ rendition # 0) =>
                 /\ notice' = "" /\ content' = content
                 /\ rendition' = rendition /\ book' = book
                 /\ rendition' \in liveRends'
                 /\ rends'[rendition'].display = Start
                 /\ tasks'[t] = IdleTask
          /\ (OpenParseDone(t, TRUE) /\ tasks[t].pref = NoLoc /\ book # 0) =>
                 /\ rends'[rendition'].display = Start
                 /\ tasks'[t].pc = "display-start"]_vars

\* C13 witness: an open with a preferred location has completed at the default
\* start
C13_Witness ==
    /\ last.op = "open-done" /\ last.arg \in Cfis
    /\ rendition # 0 /\ rends[rendition].display = Start
    /\ content = "book" /\ notice = ""

\* the state of the session engine: everything but the notice and the record
\* of the step
enginevars == << file, closed, book, rendition, toolbarTocItems, tocLabelByHref,
                 toolbarChapterTitle, toolbarSelectedHrefKey, toolbarStateListeners,
                 prefetchedSectionIndexes, prefetchInFlightIndexes,
                 lastPrefetchAnchorIndex, prefetchSessionId, content, lastLocations,
                 pageDisplayMode, liveBooks, books, liveRends, rends, tasks,
                 tocPending, prefetchPending, received,
                 tapNavigationPendingGestures, turns, states, vault >>

\* the session of the state before the step is still there after it
SessionStaysLive ==
    /\ rendition' = rendition /\ book' = book
    /\ rendition' \in liveRends' /\ book' \in liveBooks'
    /\ rends' = rends
    /\ getToolbarState(Cur).canNavigate
    /\ getToolbarState(Cur)'.canNavigate

\* C14: a page turn asked for with no session raises a notice and changes no
\* engine state; a page turn that the rendering engine fails raises the
\* navigation notice and leaves the session live: same book, same rendition,
\* canNavigate still true.
C14_PageTurnFailures ==
    [][\A k \in {"prev", "next"} :
          /\ (PageCommand(k) /\ rendition = 0) =>
                 notice' # "" /\ UNCHANGED enginevars
          /\ TurnDone(k, FALSE) =>
                 /\ notice' = "navigation-failed"
                 /\ rendition # 0 => SessionStaysLive]_vars

\* C14 witness: a page turn has failed while a session was open
C14_Witness ==
    /\ last.op = "turn-done" /\ last.arg = 0 /\ last.mode \in {"prev", "next"}
    /\ last.preRend # 0 /\ rendition = last.preRend
    /\ notice = "navigation-failed"

\* C14 witness of the other case: a page turn was asked for with no session
C14_WitnessNotOpen ==
    last.op \in {"prev", "next"} /\ last.preRend = 0 /\ notice = "not-open"

\* C15: a jump asked for with no session raises a notice, as a page turn does;
\* a jump whose display the rendering engine fails raises the navigation notice
\* and leaves the session live.
C15_JumpFailures ==
    [][/\ \A h \in JumpTargets :
              (JumpToSection(h) /\ rendition = 0) => notice' # ""
       /\ TurnDone("jump", FALSE) =>
              /\ notice' = "navigation-failed"
              /\ rendition # 0 => SessionStaysLive]_vars

\* C16: whichever step of a display-mode change fails, the re-open of a change
\* across flow families included, the call returns without notice and without
\* error state.
C16_ModeChangeNeverSurfaces ==
    [][/\ last'.op \in ModeOps =>
              /\ notice' = ""
              /\ content' = "error" => content = "error"
       /\ \A t \in TaskIds :
              (/\ tasks[t].pc = "redisplay" \/ tasks[t].via = "updatePageDisplayMode"
               /\ tasks'[t].pc = "idle") =>
                  /\ notice' = ""
                  /\ content' = "error" => content = "error"]_vars

\* C17: whichever subset of the calls of a teardown throws, the teardown
\* completes without throwing, every call that does not throw has its effect, and
\* afterwards neither book nor rendition is referenced and the toolbar state
\* derived from the session is cleared.
C17_TeardownStepsIsolated ==
    [][\A fails \in SUBSET CleanupSteps :
          (OnUnloadFileWith(fails) /\ rendition # 0) =>
              /\ last'.val = 0
              /\ rendition' = 0 /\ book' = 0
              /\ "off" \notin fails => ~rends'[rendition].handler
              /\ "deregister" \notin fails => ~rends'[rendition].hooks
              /\ "destroyRendition" \notin fails => rendition \notin liveRends'
              /\ "destroyBook" \notin fails => book \notin liveBooks'
              /\ toolbarTocItems' = << >> /\ tocLabelByHref' = EmptyMap
              /\ toolbarChapterTitle' = EmptyText
              /\ toolbarSelectedHrefKey' = Null
              /\ ~getToolbarState(Cur)'.canNavigate]_vars

\* C18: whenever control is back at the event loop, the snapshot each subscribed
\* listener received last equals the current toolbar state: every step that
\* changes a field of the snapshot, the creation of the rendition included, has
\* notified the listeners.
C18_ListenersInSync ==
    \A l \in toolbarStateListeners : received[l] = getToolbarState(Cur)

\* the entries of all paths but those in except are as before the step
OtherEntriesUnchanged(except) ==
    \A o \in Paths \ except :
        EntryOf(lastLocations', o) = EntryOf(lastLocations, o)

\* C19: after the deletion of the document at P the map has no entry for P;
\* after a rename from P to Q it has no entry for P and Q maps to the location P
\* had before the rename; the entries of all other paths are unchanged.
C19_MapFollowsLifecycle ==
    [][\A p \in Paths, q \in Paths :
          /\ VaultDelete(p) =>
                 /\ EntryOf(lastLocations', p) = NoLoc
                 /\ OtherEntriesUnchanged({p})
          /\ VaultRename(q, p) =>
                 /\ EntryOf(lastLocations', p) = NoLoc
                 /\ EntryOf(lastLocations', q) = EntryOf(lastLocations, p)
                 /\ OtherEntriesUnchanged({p, q})]_vars

\* C19 as the code has it: the entry is re-keyed to Q only if the file at Q is
\* still an EPUB file; a rename to any other kind of file drops the entry.
C19_MapFollowsEpubLifecycle ==
    [][\A p \in Paths, q \in Paths :
          /\ VaultDelete(p) =>
                 /\ EntryOf(lastLocations', p) = NoLoc
                 /\ OtherEntriesUnchanged({p})
          /\ VaultRename(q, p) =>
                 /\ EntryOf(lastLocations', p) = NoLoc
                 /\ EntryOf(lastLocations', q) =
                        IF isEpubFile(q) THEN EntryOf(lastLocations, p) ELSE NoLoc
                 /\ OtherEntriesUnchanged({p, q})]_vars

\* C19 witness: an EPUB file with a stored location was renamed to another EPUB
\* path and the location is now stored under that path, not under the old one
C19_Witness ==
    /\ last.op = "rename" /\ last.arg = 1 /\ last.val # NoLoc
    /\ \E q \in Files \cap vault :
           /\ lastLocations[q] = last.val
           /\ \A p \in Files \ {q} : lastLocations[p] = NoLoc

\* C20: with timers that fire, every call of open and every display-mode change
\* that is waiting eventually returns, and a view that shows the loading state
\* eventually shows something else, whether or not the file read and the engine's
\* promises settle.
C20_OpenAndModeChangeReturn ==
    /\ \A t \in TaskIds : (tasks[t].pc # "idle") ~> (tasks[t].pc = "idle")
    /\ (content = "loading") ~> (content # "loading")

\* the values a stored display mode may hold: the four modes and one that is
\* none of them
ModeValues == Modes \cup {"unknown"}

\* the flow family of an engine flow
FlowFamily(flow) == IF isContinuousFlow(flow) THEN "scrolled" ELSE "paginated"

\* what the resolver gives for a mode, as (flow family, spread, threshold)
Resolved(mode) ==
    LET config == getRenditionConfig(mode)
    IN  << FlowFamily(config.flow), config.spread, config.minSpreadWidth >>

\* C21: the resolver maps auto-spread to (paginated, auto, 800), always-spread to
\* (paginated, always, 0), single-page to (paginated, none, 800) and
\* continuous-scroll to (scrolled, none, 0); a value that is none of the four
\* gives the auto-spread configuration; only continuous-scroll resolves to the
\* continuous flow family; a surface is always configured as one of the four rows.
C21_ResolverTable ==
    /\ Resolved("spread-auto") = << "paginated", "auto", 800 >>
    /\ Resolved("spread-always") = << "paginated", "always", 0 >>
    /\ Resolved("spread-none") = << "paginated", "none", 800 >>
    /\ Resolved("scroll-continuous") = << "scrolled", "none", 0 >>
    /\ \A mode \in ModeValues \ Modes :
           getRenditionConfig(mode) = getRenditionConfig("spread-auto")
    /\ \A mode \in ModeValues :
           isContinuousFlow(getRenditionConfig(mode).flow) <=> mode = "scroll-continuous"
    /\ \A r \in liveRends :
           << FlowFamily(rends[r].flow), rends[r].spread, rends[r].minSpreadWidth >>
               \in {Resolved(mode) : mode \in Modes}

\* C21 witness: a session was re-opened in continuous-scroll and its surface has
\* the configuration of that mode
C21_Witness ==
    /\ rendition # 0 /\ rendition \in liveRends
    /\ last.op = "open-render"
    /\ \E t \in TaskIds : tasks[t].via = "updatePageDisplayMode"
                          /\ tasks[t].mode = "scroll-continuous"
    /\ isContinuousFlow(rends[rendition].flow)
    /\ rends[rendition].spread = "none" /\ rends[rendition].minSpreadWidth = 0

\* C22: a relocation handled while the view holds a file performs no write to
\* the settings store when its location equals the one stored under the file's
\* key, and otherwise exactly one write, which stores the location under that key
\* and changes no other key.  (Whether the view's file is the document of the
\* session that relocated is the matter of C5.)
C22_WriteDedup ==
    [][last'.op = "relocated" =>
         \A r \in Handles, c \in Cfis :
             (Relocated(r, c) /\ rends[r].handler /\ file # NoFile) =>
                 IF lastLocations[file] = c
                 THEN saves' = 0 /\ lastLocations' = lastLocations
                 ELSE saves' = 1
                      /\ lastLocations' = [lastLocations EXCEPT ![file] = c]]_vars

\* C22 witness: the session relocated to the location already stored for the
\* view's file and nothing was written
C22_Witness ==
    /\ last.op = "relocated" /\ last.arg = rendition /\ rends[rendition].handler
    /\ file # NoFile /\ lastLocations[file] = last.val
    /\ saves = 0
    /\ \E f \in Files \ {file} : lastLocations[f] # NoLoc

\* C23: a relocation requests section loads only if the session is rendered in
\* continuous-scroll: no load is requested while the surface of the session has a
\* paginated flow, whatever the display-mode setting holds by then.
C23_PrefetchOnlyWhenRenderedContinuous ==
    [][prefetchPending' \ prefetchPending # {} =>
          /\ rendition # 0
          /\ isContinuousFlow(rends[rendition].flow)]_vars

\* the loads of the current session that have not settled
PendingNow == {p \in prefetchPending : p.epoch = prefetchSessionId}

\* C24: within one session no section that is loaded or has a load in flight is
\* requested again: a step calls section.load() only for indexes that are neither
\* loaded nor in flight, and for each index once; the in-flight indexes are the
\* indexes of the pending loads of the session, so at most one load per index is
\* in flight; the loaded set and the in-flight set are disjoint; a relocation to
\* the section of the last prefetch anchor requests nothing.
C24_NoDuplicateLoads ==
    /\ [](/\ prefetchedSectionIndexes \cap prefetchInFlightIndexes = {}
          /\ prefetchInFlightIndexes = {p.index : p \in PendingNow})
    /\ [][/\ \A i \in 1..Len(loadCalls') :
                /\ loadCalls'[i] \notin prefetchedSectionIndexes
                /\ loadCalls'[i] \notin prefetchInFlightIndexes
                /\ \A j \in 1..(i - 1) : loadCalls'[j] # loadCalls'[i]
          /\ (/\ last'.op = "relocated"
              /\ RelocatedPayload(last'.val).index = lastPrefetchAnchorIndex) =>
                 loadCalls' = << >> /\ prefetchPending' = prefetchPending]_vars

\* C24 witness: the session came back from section 2 to section 1, whose
\* neighbours were loaded or in flight already, and nothing was requested
C24_Witness ==
    /\ last.op = "relocated" /\ last.arg = rendition /\ last.val = 1 /\ last.preLoc = 2
    /\ lastPrefetchAnchorIndex = 1
    /\ 0 \in prefetchInFlightIndexes /\ 2 \in prefetchedSectionIndexes
    /\ loadCalls = << >>

\* C25: a prefetch load that fails is never retried and never propagates: once
\* the load of a section has failed, no step of the same session calls
\* section.load() for that section again, whatever relocations follow; the
\* failure raises no notice and changes neither session nor toolbar state.
C25_FailedLoadNeverRetried ==
    [][/\ \A i \in 1..Len(loadCalls') :
              [index |-> loadCalls'[i], epoch |-> prefetchSessionId] \notin prefetchFailures
       /\ \A p \in prefetchPending :
              PrefetchRejected(p) =>
                  /\ notice' = "" /\ content' = content
                  /\ book' = book /\ rendition' = rendition
                  /\ liveBooks' = liveBooks /\ liveRends' = liveRends /\ rends' = rends
                  /\ getToolbarState(Cur)' = getToolbarState(Cur)
                  /\ received' = received]_vars

\* the recognizer is to be disabled: the view is not the focused one, or its
\* session is rendered in continuous-scroll
TapDisabled(env) ==
    \/ ~env.active
    \/ rendition # 0 /\ isContinuousFlow(rends[rendition].flow)

\* C26: while the session is rendered in continuous-scroll and while the view is
\* not the focused one, a touch-start leaves no pending gesture and no touch-end
\* fires previous-page or next-page, whatever its position and timing.
C26_TapDisabled ==
    [][/\ last'.op = "touchstart" =>
              \A e \in PlainStartEvents, env \in FocusEnvs :
                  (TapDisabled(env) /\ TouchStart(e, env)) =>
                      tapNavigationPendingGestures' = NoGesture
       /\ last'.op = "touchend" =>
              \A e \in PlainEndEvents, env \in FocusEnvs :
                  (TapDisabled(env) /\ TouchEnd(e, env)) => turns' = turns]_vars

\* the page turns the step has started
TurnsStarted ==
    (turns'["prev"] - turns["prev"]) + (turns'["next"] - turns["next"])
        + (turns'["jump"] - turns["jump"])

\* the touch of event e has moved beyond the threshold from the start of the
\* pending gesture
MovedBeyond(e) ==
    \E i \in 1..Len(e.touches) :
        \/ Abs(e.touches[i].clientX - tapNavigationPendingGestures.startX)
               > TAP_NAVIGATION_MAX_MOVE_PX
        \/ Abs(e.touches[i].clientY - tapNavigationPendingGestures.startY)
               > TAP_NAVIGATION_MAX_MOVE_PX

\* C27: the one pending gesture of the content document is consumed or discarded
\* once: a touch-start or touch-move with a touch count other than 1, a touch-move
\* beyond the pixel threshold and a touch-cancel leave no pending gesture; a
\* touch-end with no pending gesture fires no navigation, wherever and whenever
\* it ends; every touch-end leaves no pending gesture and starts at most one page
\* turn; no other touch event starts a page turn.
C27_GestureDiscardedOnce ==
    [][/\ (last'.op = "touchstart" /\ last'.val # 1) =>
              tapNavigationPendingGestures' = NoGesture
       /\ last'.op = "touchmove" =>
              \A e \in MoveEvents :
                  (TouchMove(e) /\ (Len(e.touches) # 1 \/ MovedBeyond(e))) =>
                      tapNavigationPendingGestures' = NoGesture
       /\ last'.op = "touchcancel" => tapNavigationPendingGestures' = NoGesture
       /\ last'.op = "touchend" =>
              /\ tapNavigationPendingGestures' = NoGesture
              /\ TurnsStarted \in {0, 1}
              /\ tapNavigationPendingGestures = NoGesture => TurnsStarted = 0
       /\ last'.op \in {"touchstart", "touchmove", "touchcancel"} => turns' = turns]_vars

\* C27 witness: a touch ended in the left zone of the focused view at a time at
\* which a tap would still be valid, no gesture was pending any more, and no page
\* was turned
C27_Witness ==
    /\ last.op = "touchend" /\ last.val = -1 /\ last.mode = "none"
    /\ last.arg = 8 /\ now > 0 /\ now <= TAP_NAVIGATION_MAX_DURATION_MS
    /\ rendition # 0 /\ turns = NoTurns

\* what the claim requires of a touch-end with event e in environment env that
\* turns a page; the duration ceiling itself is a valid duration
TapConditions(e, env) ==
    LET pending == tapNavigationPendingGestures
    IN  /\ pending # NoGesture
        /\ e.touches = << >>
        /\ \E i \in 1..Len(e.changedTouches) :
               /\ e.changedTouches[i].identifier = pending.touchIdentifier
               /\ Abs(e.changedTouches[i].clientX - pending.startX)
                      <= TAP_NAVIGATION_MAX_MOVE_PX
               /\ Abs(e.changedTouches[i].clientY - pending.startY)
                      <= TAP_NAVIGATION_MAX_MOVE_PX
        /\ now - pending.startedAt <= TAP_NAVIGATION_MAX_DURATION_MS
        /\ ~env.selection
        /\ pending.target # "link" /\ e.target # "link"

\* C28: a touch-end turns a page only if the ended touch has the identifier
\* stored at touch-start, no other touch remains, the time elapsed is not above
\* the duration ceiling, the movement is within the threshold on both axes, no
\* text is selected in the document, and neither the target of the touch-start
\* nor that of the touch-end lies in an interactive element.
C28_TapFiresOnlyIfValid ==
    [][(last'.op = "touchend" /\ turns' # turns) =>
          \A e \in EndEvents, env \in TapEnvs :
              TouchEnd(e, env) => TapConditions(e, env)]_vars

\* C28 witness: a tap that lasted half the ceiling ended on the border of the
\* right zone and next-page was called
C28_Witness ==
    /\ last.op = "touchend" /\ last.mode = "next"
    /\ last.arg = 30 /\ last.val = TAP_NAVIGATION_MAX_DURATION_MS \div 2
    /\ turns["next"] = 1 /\ turns["prev"] = 0

\* the content document is bound: the controller holds its state and the
\* engine displays it
IsBound == states.bound /\ states.attached

\* no gesture state is held for the content document
NoGestureState ==
    /\ tapNavigationPendingGestures = NoGesture
    /\ states.pendingLongPress = NoPendingLongPress
    /\ states.suppressClickAnchor = 0 /\ states.suppressClickTimerId = -1
    /\ states.autoHideTimerId = -1

\* C29: once the content document is unbound, by the engine removing it during
\* the session or by the teardown of the session, it has no pending tap gesture,
\* no pending long-press timer, no armed click suppression and no auto-hide
\* timer, and no popover is shown or hidden and no click intercepted for it.
C29_NoGestureStateOutlivesBinding ==
    /\ [](~IsBound => NoGestureState)
    /\ [][(last'.op \in {"long-press", "auto-hide"} \/ (last'.op = "click" /\ last'.val # 0))
              => IsBound]_vars

\* the same for a document unbound by the teardown only
C29_TeardownClearsGestureState ==
    [][last'.op \in {"unload", "close", "open"} => (~IsBound /\ NoGestureState)']_vars

\* the touch has moved beyond the threshold of the long press on some axis
FootMovedBeyond(touch) ==
    \/ Abs(touch.clientX - states.pendingLongPress.startX) > TOUCH_MOVE_CANCEL_THRESHOLD_PX
    \/ Abs(touch.clientY - states.pendingLongPress.startY) > TOUCH_MOVE_CANCEL_THRESHOLD_PX

\* C30: a touch on a footnote anchor shows the popover exactly when it has been
\* held for LONG_PRESS_MS: the long-press timer is set to that delay at the
\* touch-start, a touch-end, touch-cancel or movement beyond the threshold before
\* it has fired clears it, nothing but a touch event or the unbinding of the
\* document changes it, and it fires only when due; when it fires the popover
\* shows that anchor, click suppression is armed on that anchor, and the
\* auto-hide timer is set to AUTO_HIDE_MS later; a visible popover always has its
\* auto-hide timer armed, only another long press re-arms it, and when it fires
\* the popover is hidden.
C30_LongPress ==
    /\ [](states.popover # 0 =>
              /\ states.autoHideTimerId # -1
              /\ states.autoHideTimerId <= now + AUTO_HIDE_MS)
    /\ [][/\ last'.op = "foot-touchstart" =>
               /\ states'.popover = states.popover
               /\ \A a \in {0} \cup Anchors, t \in FootTouches \ {NoTouch} :
                      FootTouchStart(a, t) =>
                          IF a \in FootnoteAnchors
                          THEN /\ states'.pendingLongPress.anchor = a
                               /\ states'.pendingLongPress.timerId = now + LONG_PRESS_MS
                               /\ ~states'.pendingLongPress.fired
                          ELSE states'.pendingLongPress = NoPendingLongPress
          /\ last'.op = "foot-touchend" =>
               /\ states'.pendingLongPress = NoPendingLongPress
               /\ states'.popover = states.popover
          /\ last'.op = "foot-touchmove" =>
               /\ states'.popover = states.popover
               /\ \A t \in FootTouches \ {NoTouch} :
                      (FootTouchMove(t) /\ ~states.pendingLongPress.fired /\ FootMovedBeyond(t))
                          => states'.pendingLongPress = NoPendingLongPress
          /\ states'.pendingLongPress # states.pendingLongPress =>
               last'.op \in {"foot-touchstart", "foot-touchmove", "foot-touchend",
                             "long-press", "unbind"}
          /\ states'.popover \notin {0, states.popover} => last'.op = "long-press"
          /\ last'.op = "long-press" =>
               /\ states.pendingLongPress # NoPendingLongPress
               /\ ~states.pendingLongPress.fired
               /\ now >= states.pendingLongPress.timerId
               /\ states'.popover = states.pendingLongPress.anchor
               /\ states'.suppressClickAnchor = states.pendingLongPress.anchor
               /\ states'.suppressClickTimerId = now + SUPPRESS_CLICK_MS
               /\ states'.autoHideTimerId = now + AUTO_HIDE_MS
          /\ (states.autoHideTimerId # -1 /\ states'.autoHideTimerId # states.autoHideTimerId) =>
               last'.op \in {"long-press", "auto-hide", "unbind"}
          /\ last'.op = "auto-hide" =>
               /\ now >= states.autoHideTimerId
               /\ states'.popover = 0 /\ states'.autoHideTimerId = -1]_vars

\* C30 witness: the touch on anchor 1 was held for LONG_PRESS_MS, the timer has
\* fired, the popover shows anchor 1 and the auto-hide is due AUTO_HIDE_MS later
C30_Witness ==
    /\ last.op = "long-press" /\ last.arg = 1
    /\ now = LONG_PRESS_MS
    /\ states.popover = 1 /\ states.suppressClickAnchor = 1
    /\ states.autoHideTimerId = LONG_PRESS_MS + AUTO_HIDE_MS

\* the popover shown by a long press has been hidden by its auto-hide timer
C30_WitnessHidden ==
    /\ last.op = "auto-hide" /\ states.popover = 0
    /\ states.pendingLongPress # NoPendingLongPress /\ states.pendingLongPress.fired

\* C31: when a touch whose long press has fired the popover on anchor A is
\* released, the click that follows on A is intercepted, however long the touch
\* was held after the popover appeared.
C31_ClickAfterLongPressIntercepted ==
    [][(/\ last.op = "foot-touchend" /\ last.arg # 0
        /\ last'.op = "click" /\ last'.arg = last.arg)
           => last'.val = last.arg]_vars

\* the same for a touch released before the suppression window has run out
C31_ClickWithinWindowIntercepted ==
    [][(/\ last.op = "foot-touchend" /\ last.arg # 0
        /\ last'.op = "click" /\ last'.arg = last.arg
        /\ states.suppressClickAnchor # 0)
           => last'.val = last.arg]_vars

\* the step is an enter event (a leave event) of the content document
IsEnter == last'.op \in {"pointerover", "mouseover"}
IsLeave == last'.op \in {"pointerout", "mouseout"}

\* C32: the popover is shown by hover only for an enter event that mouse input
\* has caused, on an anchor that resolves to footnote text: no enter event that
\* touch or pen input has caused, compatibility mouse events included, shows it;
\* once hover has shown it on anchor A, a leave event of the mouse from A to a
\* target outside A hides it and a leave event between descendants of A leaves
\* it shown.
C32_HoverMouseOnly ==
    [][/\ (IsEnter /\ states'.popover # 0 /\ states' # states) =>
              /\ last'.mode = "mouse"
              /\ last'.arg \in FootnoteAnchors
              /\ states'.popover = last'.arg
       /\ (IsEnter /\ last'.mode # "mouse") => states' = states
       /\ (IsLeave /\ last'.mode = "mouse" /\ states.activeAnchor # 0
                   /\ last'.arg = states.activeAnchor) =>
              IF last'.val # last'.arg
              THEN states'.popover = 0 /\ states'.activeAnchor = 0
              ELSE states' = states]_vars

\* the same with the mouse events left out of the first two parts
C32_PointerEventsMouseOnly ==
    [][/\ (last'.op = "pointerover" /\ states'.popover # 0 /\ states' # states) =>
              /\ last'.mode = "mouse"
              /\ last'.arg \in FootnoteAnchors
              /\ states'.popover = last'.arg
       /\ (last'.op = "pointerover" /\ last'.mode # "mouse") => states' = states
       /\ (IsLeave /\ last'.mode = "mouse" /\ states.activeAnchor # 0
                   /\ last'.arg = states.activeAnchor) =>
              IF last'.val # last'.arg
              THEN states'.popover = 0 /\ states'.activeAnchor = 0
              ELSE states' = states]_vars

\* the step has called updateAppearanceTheme of the view with a live session
ThemeCall ==
    /\ ~closed /\ rendition # 0
    /\ \/ last'.op = "set-theme"
       \/ last'.op = "frame" /\ last'.val = 1

\* C33: a call of updateAppearanceTheme adds the theme's style rules to the
\* contents of the session if and only if the resolved theme differs from the
\* one resolved before; a call that changes the requested theme and not the
\* resolved one adds nothing; the rules added are those of the resolved theme.
C33_ReinjectIffResolvedChanged ==
    [][ThemeCall =>
          /\ injected' # "none" <=>
                 appearance'.currentResolvedAppearanceTheme
                     # appearance.currentResolvedAppearanceTheme
          /\ injected' \in {"none", appearance'.currentResolvedAppearanceTheme}]_vars

\* the half of it that goes from the change of the resolved theme to the rules
C33_ResolvedChangeReinjects ==
    [][ThemeCall =>
          /\ appearance'.currentResolvedAppearanceTheme
                 # appearance.currentResolvedAppearanceTheme => injected' # "none"
          /\ injected' \in {"none", appearance'.currentResolvedAppearanceTheme}]_vars

\* C34: the theme syncs are coalesced by the pending flag: at most one frame
\* callback is pending, and one is pending exactly while the flag is set; a
\* change event requests a callback only if the setting is auto and none is
\* pending; the callback clears the flag, so that a later event requests a new
\* one, and it applies the sync once if the setting is auto at that moment and
\* not at all otherwise.
C34_SyncCoalesced ==
    /\ [](/\ appearance.frames <= 1
          /\ appearance.isAutoAppearanceThemeSyncQueued <=> appearance.frames = 1)
    /\ [][/\ last'.op = "css-change" =>
               /\ last'.val = IF appearance.appearanceTheme = "auto"
                                  /\ appearance.frames = 0 THEN 1 ELSE 0
               /\ appearance'.frames = appearance.frames + last'.val
               /\ injected' = "none"
               /\ appearance'.currentResolvedAppearanceTheme
                      = appearance.currentResolvedAppearanceTheme
          /\ last'.op = "frame" =>
               /\ appearance'.frames = 0
               /\ ~appearance'.isAutoAppearanceThemeSyncQueued
               /\ last'.val = IF appearance.appearanceTheme = "auto" THEN 1 ELSE 0
               /\ appearance.appearanceTheme # "auto" =>
                      /\ injected' = "none"
                      /\ appearance'.currentAppearanceTheme
                             = appearance.currentAppearanceTheme
                      /\ appearance'.currentResolvedAppearanceTheme
                             = appearance.currentResolvedAppearanceTheme
               /\ (appearance.appearanceTheme = "auto" /\ ~closed) =>
                      /\ appearance'.currentAppearanceTheme = "auto"
                      /\ appearance'.currentResolvedAppearanceTheme
                             = resolveAppearanceTheme(Cur, "auto")]_vars

\* C34 witness: a sync was scheduled while the setting was auto, the setting was
\* changed before the frame, and the frame callback has run without applying it
C34_Witness ==
    /\ last.op = "frame" /\ last.val = 0
    /\ appearance.appearanceTheme = "dark" /\ appearance.themeDark
    /\ appearance.currentResolvedAppearanceTheme = "dark"
    /\ appearance.frames = 0 /\ rendition # 0

\* a sync that an event has scheduled was applied by the frame callback and has
\* added the rules of the dark theme to the contents
C34_WitnessApplied ==
    /\ last.op = "frame" /\ last.val = 1 /\ injected = "dark"

OpenPcs == {"read", "parse", "display-saved", "display-start"}

\* the open t has been superseded: a teardown has run since it began
Superseded(t) == tasks[t].pc \in OpenPcs /\ tasks[t].epoch # prefetchSessionId

\* C35: an open that was superseded while it awaited the file read, the parse or
\* the display applies nothing when it resumes: it creates no handle and no
\* surface, registers no hooks and no relocation handler, does not replace the
\* content with the error state and raises no notice.
C35_SupersededOpenAppliesNothing ==
    [][\A t \in TaskIds :
          (Superseded(t) /\ tasks'[t] # tasks[t]) =>
              /\ book' = book /\ rendition' = rendition
              /\ liveBooks' = liveBooks /\ liveRends' = liveRends
              /\ books' = books /\ rends' = rends
              /\ content' = content
              /\ notice' = ""]_vars

\* C36: a location is persisted under the path of a document only if a session
\* opened for that document has reported it: the relocation of a surface that
\* renders document A never changes the entry of another document B.
C36_LocationKeyedByItsDocument ==
    [][last'.op = "relocated" =>
          \A f \in Files :
              lastLocations'[f] # lastLocations[f] =>
                  /\ lastLocations'[f] = last'.val
                  /\ rends[last'.arg].book # 0
                  /\ books[rends[last'.arg].book] = f]_vars

\* the attached session renders the view's file, its TOC is in the toolbar and it
\* has relocated, all after the step
TocAndLocation ==
    /\ rendition' # 0 /\ book' # 0 /\ rends'[rendition'].book = book'
    /\ books'[book'] = file'
    /\ toolbarTocItems' = flattenTocItems(TocOf(file'), 0)
    /\ rends'[rendition'].loc # NoLoc

\* the title and the selected key for the href the session is at, after the step
SectionShown ==
    LET normalizedHref == normalizeHref(SectionHref(rends'[rendition'].loc))
    IN  /\ toolbarChapterTitle' =
              IF normalizedHref \in DOMAIN tocLabelByHref'
              THEN tocLabelByHref'[normalizedHref]
              ELSE SectionHref(rends'[rendition'].loc)
        /\ toolbarSelectedHrefKey' =
              findBestMatchingHrefKey(toolbarTocItems', normalizedHref)

\* C37: once the TOC has loaded and the session has relocated to href h, the
\* chapter title is the TOC label of h and the selected key is the TOC key that
\* matches h, whether the TOC load or the relocation came last.
C37_TocAndRelocationCommute ==
    [][((\/ last'.op = "relocated" /\ last'.arg = rendition
         \/ last'.op = "toc" /\ last'.val = 1 /\ last'.arg = book)
        /\ TocAndLocation) => SectionShown]_vars

\* the same for the order in which the TOC load comes first
C37_RelocationAfterToc ==
    [][(last'.op = "relocated" /\ last'.arg = rendition /\ TocAndLocation)
           => SectionShown]_vars

\* the selected key of the snapshot is null or the key of one of its TOC items
KeyAmongItems(snapshot) ==
    \/ snapshot.selectedHrefKey = Null
    \/ \E i \in 1..Len(snapshot.tocItems) :
           snapshot.tocItems[i].hrefKey = snapshot.selectedHrefKey

\* C38: in the snapshot that getToolbarState() returns and in the snapshot each
\* listener has received last, the selected key is null or the normalized key of
\* one of the TOC items of the same snapshot.
C38_SelectedKeyAmongItems ==
    /\ KeyAmongItems(getToolbarState(Cur))
    /\ \A l \in Listeners : KeyAmongItems(received[l])

\* C38 witness: the user has jumped by the second entry of the TOC dropdown and
\* the listener has received the snapshot with that entry selected
C38_Witness ==
    /\ last.op = "toc-jump" /\ last.arg = 2
    /\ toolbarSelectedHrefKey = toolbarTocItems[2].hrefKey
    /\ \E l \in Listeners : received[l].selectedHrefKey = toolbarSelectedHrefKey

\* the touch that is down has fired the long press of the footnote controller
LongPressFired ==
    /\ states.pendingLongPress # NoPendingLongPress
    /\ states.pendingLongPress.fired

\* the tap gesture that is pending could still start a page turn
TapStillValid ==
    /\ tapNavigationPendingGestures # NoGesture
    /\ ~isTapNavigationIgnoredTarget(tapNavigationPendingGestures.target)
    /\ now - tapNavigationPendingGestures.startedAt <= TAP_NAVIGATION_MAX_DURATION_MS

\* C39: tap navigation and the footnote controller never both act on one touch
\* sequence of a content document: a touchend that starts a page turn ends no
\* touch that has fired the long-press popover, and it leaves no long press
\* pending that could show the popover afterwards; while a touch that has fired
\* the long press is down, no tap gesture is pending that could still turn the
\* page; and the long press fires only for a touch that began on a footnote
\* anchor, which tap navigation ignores.
C39_OneSubsystemPerTouch ==
    /\ [](LongPressFired => ~TapStillValid)
    /\ [][/\ last'.op = "doc-touchend" =>
               /\ ~(last'.mode # "none" /\ last'.arg # 0)
               /\ states'.pendingLongPress = NoPendingLongPress
          /\ last'.op = "long-press" =>
               /\ last'.arg \in FootnoteAnchors
               /\ tapNavigationPendingGestures # NoGesture =>
                      tapNavigationPendingGestures.target = "link"]_vars

\* a touch on a footnote anchor was held until the popover showed and was then
\* lifted in the zone of the next page: no page turn
C39_Witness ==
    /\ last.op = "doc-touchend" /\ last.arg = 1 /\ last.mode = "none" /\ last.val >= LONG_PRESS_MS
    /\ states.popover = 1
    /\ tapNavigationPendingGestures = NoGesture

\* a tap on plain text turned the page and no popover shows
C39_WitnessTap ==
    /\ last.op = "doc-touchend" /\ last.arg = 0 /\ last.mode = "next"
    /\ states.popover = 0

\* the timeouts of a kind that are armed for the document
Armed(kind) == {tm \in states.timers : tm.kind = kind}

\* C40: for the content document, in every reachable state: at most one
\* long-press timeout, at most one click-suppression timeout and at most one
\* auto-hide timeout is armed, and each is the one whose id the binding state
\* holds; the suppression anchor is set exactly when the suppression timeout is
\* armed; a document that is bound has one popover element and one set of
\* listeners, one that is not has none and no timeout; and binding a bound
\* document again changes nothing.
C40_OneTimerOfAKind ==
    /\ [](/\ \A kind \in TimerKinds : Cardinality(Armed(kind)) <= 1
          /\ Armed("longPress") =
                 IF states.pendingLongPress # NoPendingLongPress /\ ~states.pendingLongPress.fired
                 THEN {[kind |-> "longPress", id |-> states.pendingLongPress.timerId]} ELSE {}
          /\ Armed("suppressClick") =
                 IF states.suppressClickTimerId # -1
                 THEN {[kind |-> "suppressClick", id |-> states.suppressClickTimerId]} ELSE {}
          /\ Armed("autoHide") =
                 IF states.autoHideTimerId # -1
                 THEN {[kind |-> "autoHide", id |-> states.autoHideTimerId]} ELSE {}
          /\ states.suppressClickAnchor # 0 <=> Armed("suppressClick") # {}
          /\ states.popoverEls = (IF states.bound THEN 1 ELSE 0)
          /\ states.listenerSets = (IF states.bound THEN 1 ELSE 0)
          /\ ~states.bound => states.timers = {})
    /\ [][last'.op = "bind-again" => states' = states]_vars

\* the document was bound again while the popover of a long press showed and
\* its suppression and auto-hide timeouts were armed
C40_Witness ==
    /\ last.op = "bind-again"
    /\ states.popover = 1
    /\ Cardinality(Armed("suppressClick")) = 1
    /\ Cardinality(Armed("autoHide")) = 1
    /\ states.popoverEls = 1

\* a second long press began while the suppression of the first was armed: the
\* suppression was armed anew, once
C40_WitnessRearmed ==
    /\ last.op = "long-press"
    /\ states.suppressClickTimerId = 2 * LONG_PRESS_MS + SUPPRESS_CLICK_MS
    /\ Cardinality(Armed("suppressClick")) = 1

====
